---------------------------- MODULE Spec2Model ----------------------------
(***************************************************************************)
(* A model of the intent-confidence engine of intent_confidence.py          *)
(* (class IntentConfidenceMapper).                                          *)
(*                                                                          *)
(* Texts are sequences of one-character strings.  Python floats are         *)
(* modelled by exact rationals <<n, d>> in lowest terms (d > 0): the model  *)
(* abstracts from binary rounding, every other step of the arithmetic is    *)
(* the code's.  A Python dict is a sequence of <<key, value>> pairs in      *)
(* insertion order, or a TLA+ function when only lookups are made.          *)
(***************************************************************************)
EXTENDS Integers, Sequences, FiniteSets, TLC

(***************************************************************************)
(* Exact rational arithmetic standing for Python's float arithmetic.        *)
(***************************************************************************)
RECURSIVE Gcd(_, _)
Gcd(a, b) ==
    IF b = 0 THEN a ELSE Gcd(b, a % b)

Q(n, d) ==
    LET s == IF d < 0 THEN -1 ELSE 1
        abs(k) == IF k < 0 THEN -k ELSE k
        g == Gcd(abs(n), abs(d))
    IN  IF n = 0 THEN <<0, 1>> ELSE <<(s * n) \div g, (s * d) \div g>>

RZero == Q(0, 1)

ROne == Q(1, 1)

\* x + y over the least common denominator, which keeps the products small
RAdd(x, y) ==
    LET g == Gcd(x[2], y[2])
    IN  Q(x[1] * (y[2] \div g) + y[1] * (x[2] \div g), (x[2] \div g) * y[2])

RMul(x, y) ==
    Q(x[1] * y[1], x[2] * y[2])

RDiv(x, y) ==
    Q(x[1] * y[2], x[2] * y[1])

RLt(x, y) ==
    x[1] * y[2] < y[1] * x[2]

RLe(x, y) ==
    x[1] * y[2] <= y[1] * x[2]

RGe(x, y) ==
    RLe(y, x)

RGt(x, y) ==
    RLt(y, x)

RECURSIVE RSum(_)
RSum(s) ==
    IF s = <<>> THEN RZero ELSE RAdd(Head(s), RSum(Tail(s)))

\* A faulty max(): the first element.
FirstOf(s) ==
    s[1]

RECURSIVE RMaxSeq(_)
RMaxSeq(s) ==
    IF Len(s) = 1 THEN s[1]
    ELSE LET m == RMaxSeq(Tail(s)) IN IF RGe(s[1], m) THEN s[1] ELSE m

Range(s) ==
    { s[i] : i \in DOMAIN s }

(***************************************************************************)
(* Characters and the str methods the mapper uses.                          *)
(***************************************************************************)
UpperLetters ==
    <<"A","B","C","D","E","F","G","H","I","J","K","L","M",
      "N","O","P","Q","R","S","T","U","V","W","X","Y","Z">>

LowerLetters ==
    <<"a","b","c","d","e","f","g","h","i","j","k","l","m",
      "n","o","p","q","r","s","t","u","v","w","x","y","z">>

Digits ==
    {"0","1","2","3","4","5","6","7","8","9"}

Whitespace ==
    {" "}

LowerChar(c) ==
    IF \E i \in DOMAIN UpperLetters : UpperLetters[i] = c
    THEN LowerLetters[CHOOSE i \in DOMAIN UpperLetters : UpperLetters[i] = c]
    ELSE c

\* str.lower()
lower(text) ==
    [i \in DOMAIN text |-> LowerChar(text[i])]

\* str.strip(): leading and trailing whitespace removed
RECURSIVE lstrip(_)
lstrip(text) ==
    IF text # <<>> /\ Head(text) \in Whitespace THEN lstrip(Tail(text)) ELSE text

RECURSIVE rstrip(_)
rstrip(text) ==
    IF text # <<>> /\ text[Len(text)] \in Whitespace
    THEN rstrip(SubSeq(text, 1, Len(text) - 1))
    ELSE text

strip(text) ==
    rstrip(lstrip(text))

\* A faulty re.sub: the hyphen is replaced by a space too.
HyphenAsSpecial(text) ==
    [i \in DOMAIN text |->
        IF text[i] \in Range(LowerLetters) \cup Digits \cup Whitespace
        THEN text[i] ELSE " "]

\* re.sub(r'[^a-z0-9\s-]', ' ', text)
sub_special_chars(text) ==
    [i \in DOMAIN text |->
        IF text[i] \in Range(LowerLetters) \cup Digits \cup Whitespace \cup {"-"}
        THEN text[i] ELSE " "]

\* str.split(): the maximal runs of non-whitespace characters, in order
RECURSIVE split(_)
split(text) ==
    LET t == lstrip(text)
        n == IF \E i \in DOMAIN t : t[i] \in Whitespace
             THEN (CHOOSE i \in DOMAIN t :
                      t[i] \in Whitespace /\ \A j \in 1..(i - 1) : t[j] \notin Whitespace) - 1
             ELSE Len(t)
    IN  IF t = <<>> THEN <<>>
        ELSE <<SubSeq(t, 1, n)>> \o split(SubSeq(t, n + 1, Len(t)))

endswith(word, suffix) ==
    /\ Len(word) >= Len(suffix)
    /\ SubSeq(word, Len(word) - Len(suffix) + 1, Len(word)) = suffix

DropLast(word, n) ==
    SubSeq(word, 1, Len(word) - n)

(***************************************************************************)
(* IntentConfidenceMapper._simple_stem                                      *)
(***************************************************************************)
UndoubleConsonant(word) ==
    IF Len(word) >= 2 /\ word[Len(word)] = word[Len(word) - 1]
                      /\ word[Len(word)] \notin {"a","e","i","o","u"}
    THEN DropLast(word, 1) ELSE word

StripIng(word) ==
    IF endswith(word, <<"i","n","g">>) /\ Len(word) > 5
    THEN UndoubleConsonant(DropLast(word, 3)) ELSE word

StripEd(word) ==
    IF endswith(word, <<"e","d">>) /\ Len(word) > 4
    THEN UndoubleConsonant(DropLast(word, 2)) ELSE word

\* A faulty plural rule: a final 's' is stripped after another 's' too.
StripAnyS(word) ==
    IF endswith(word, <<"i","e","s">>) /\ Len(word) > 4
        THEN DropLast(word, 3) \o <<"y">>
    ELSE IF endswith(word, <<"e","s">>) /\ Len(word) > 3
        THEN DropLast(word, 2)
    ELSE IF endswith(word, <<"s">>) /\ Len(word) > 3
        THEN DropLast(word, 1)
    ELSE word

StripPlural(word) ==
    IF endswith(word, <<"i","e","s">>) /\ Len(word) > 4
        THEN DropLast(word, 3) \o <<"y">>
    ELSE IF endswith(word, <<"e","s">>) /\ Len(word) > 3
        THEN DropLast(word, 2)
    ELSE IF endswith(word, <<"s">>) /\ ~endswith(word, <<"s","s">>) /\ Len(word) > 3
        THEN DropLast(word, 1)
    ELSE word

StripCe(word) ==
    IF endswith(word, <<"c","e">>) /\ Len(word) > 4
    THEN DropLast(word, 1) ELSE word

_simple_stem(word) ==
    IF Len(word) <= 3 THEN word
    ELSE StripCe(StripPlural(StripEd(StripIng(word))))

(***************************************************************************)
(* IntentConfidenceMapper._extract_keywords: the list of stems, in order.   *)
(***************************************************************************)
stop_words ==
    { <<"t","h","e">>, <<"a">>, <<"a","n">>, <<"a","n","d">>, <<"o","r">>,
      <<"b","u","t">>, <<"i","n">>, <<"o","n">>, <<"a","t">>, <<"t","o">>,
      <<"f","o","r">>, <<"o","f">>, <<"w","i","t","h">>, <<"b","y">>,
      <<"f","r","o","m">>, <<"i","s">>, <<"a","r","e">>, <<"w","a","s">>,
      <<"w","e","r","e">>, <<"b","e">>, <<"b","e","e","n">>, <<"b","e","i","n","g">>,
      <<"h","a","v","e">>, <<"h","a","s">>, <<"h","a","d">>, <<"d","o">>,
      <<"d","o","e","s">>, <<"d","i","d">>, <<"w","i","l","l">>, <<"w","o","u","l","d">>,
      <<"s","h","o","u","l","d">>, <<"c","o","u","l","d">>, <<"m","a","y">>,
      <<"m","i","g","h","t">>, <<"m","u","s","t">>, <<"c","a","n">>, <<"t","h","i","s">>,
      <<"t","h","a","t">>, <<"t","h","e","s","e">>, <<"t","h","o","s","e">>, <<"i">>,
      <<"y","o","u">>, <<"h","e">>, <<"s","h","e">>, <<"i","t">>, <<"w","e">>,
      <<"t","h","e","y">> }

RECURSIVE StemAll(_)
StemAll(words) ==
    IF words = <<>> THEN <<>>
    ELSE LET w == Head(words)
         IN  (IF w \notin stop_words /\ Len(w) > 2 THEN <<_simple_stem(w)>> ELSE <<>>)
             \o StemAll(Tail(words))

_extract_keywords(text) ==
    StemAll(split(sub_special_chars(lower(text))))

(***************************************************************************)
(* difflib.SequenceMatcher(None, a, b).ratio() as the mapper calls it: no   *)
(* junk, texts shorter than the 200 characters at which autojunk starts.    *)
(* Positions are 1-based, a block a[alo..ahi] is empty when alo > ahi.      *)
(***************************************************************************)
RECURSIVE CommonRun(_, _, _, _, _, _)
CommonRun(a, b, i, j, ahi, bhi) ==
    IF i <= ahi /\ j <= bhi /\ a[i] = b[j]
    THEN 1 + CommonRun(a, b, i + 1, j + 1, ahi, bhi)
    ELSE 0

\* The longest matching block <<i, j, k>>: k maximal, then i minimal, then j minimal.
find_longest_match(a, b, alo, ahi, blo, bhi) ==
    LET run == [i \in alo..ahi, j \in blo..bhi |-> CommonRun(a, b, i, j, ahi, bhi)]
        lens == { run[i, j] : i \in alo..ahi, j \in blo..bhi }
        k == CHOOSE n \in lens : \A m \in lens : m <= n
        besti == CHOOSE i \in alo..ahi :
                     /\ \E j \in blo..bhi : run[i, j] = k
                     /\ \A i2 \in alo..(i - 1) : \A j \in blo..bhi : run[i2, j] # k
        bestj == CHOOSE j \in blo..bhi :
                     run[besti, j] = k /\ \A j2 \in blo..(j - 1) : run[besti, j2] # k
    IN  IF alo > ahi \/ blo > bhi THEN <<alo, blo, 0>>
        ELSE IF k = 0 THEN <<alo, blo, 0>>
        ELSE <<besti, bestj, k>>

RECURSIVE MatchingChars(_, _, _, _, _, _)
MatchingChars(a, b, alo, ahi, blo, bhi) ==
    LET m == find_longest_match(a, b, alo, ahi, blo, bhi)
    IN  IF m[3] = 0 THEN 0
        ELSE m[3] + MatchingChars(a, b, alo, m[1] - 1, blo, m[2] - 1)
                  + MatchingChars(a, b, m[1] + m[3], ahi, m[2] + m[3], bhi)

SequenceRatio(a, b) ==
    IF Len(a) + Len(b) = 0 THEN ROne
    ELSE Q(2 * MatchingChars(a, b, 1, Len(a), 1, Len(b)), Len(a) + Len(b))

(***************************************************************************)
(* IntentConfidenceMapper._calculate_text_similarity                        *)
(***************************************************************************)
Max(m, n) ==
    IF m >= n THEN m ELSE n

\* A faulty keyword overlap: the size of the smaller set is the denominator.
OverlapOfSmaller(keywords1, keywords2) ==
    Q(Cardinality(keywords1 \cap keywords2),
      IF Cardinality(keywords1) <= Cardinality(keywords2)
      THEN Cardinality(keywords1) ELSE Cardinality(keywords2))

KeywordOverlap(keywords1, keywords2) ==
    Q(Cardinality(keywords1 \cap keywords2),
      Max(Cardinality(keywords1), Cardinality(keywords2)))

\* similarity is the sequence ratio; the keyword overlap is blended in only
\* when both keyword sets are non-empty.
BlendSimilarity(similarity, keywords1, keywords2) ==
    IF keywords1 # {} /\ keywords2 # {}
    THEN RAdd(RMul(Q(7, 10), similarity),
              RMul(Q(3, 10), KeywordOverlap(keywords1, keywords2)))
    ELSE similarity

\* The body after text1 and text2 are normalised.
NormalisedSimilarity(text1, text2) ==
    BlendSimilarity(SequenceRatio(text1, text2),
                    Range(_extract_keywords(text1)),
                    Range(_extract_keywords(text2)))

\* A faulty _calculate_text_similarity: the texts are compared as given, neither
\* lowercased nor trimmed.
UnnormalisedSimilarity(text1, text2) ==
    NormalisedSimilarity(text1, text2)

_calculate_text_similarity(text1, text2) ==
    NormalisedSimilarity(strip(lower(text1)), strip(lower(text2)))

(***************************************************************************)
(* The texts, catalogs, enrichment rules and weights the model draws the    *)
(* mapper's construction arguments and the calls' arguments from.           *)
(***************************************************************************)
\* "Why is payment-api failing?"
WhyFailing ==
    <<"W","h","y"," ","i","s"," ","p","a","y","m","e","n","t","-","a","p","i"," ","f","a","i","l","i","n","g","?">>

\* "Is it?"
IsIt ==
    <<"I","s"," ","i","t","?">>

FullCatalog ==
    << <<"CAUSE",
         [ description |-> <<"c","a","u","s","e">>,
           intents |-> <<
            <<"ROOT_CAUSE_SINGLE",
               [ description |-> (* "Root cause of a failing service" *) <<"R","o","o","t"," ","c","a","u","s","e"," ","o","f"," ","a"," ","f","a","i","l","i","n","g"," ","s","e","r","v","i","c","e">>,
                 examples |-> <<WhyFailing, (* "What caused the outage?" *) <<"W","h","a","t"," ","c","a","u","s","e","d"," ","t","h","e"," ","o","u","t","a","g","e","?">>>>,
                 data_sources |-> <<"metrics", "logs">> ]>> >> ]>>,
       <<"TREND",
         [ intents |-> <<
            <<"UNDERCURRENTS_TREND",
               [ description |-> (* "Emerging trends" *) <<"E","m","e","r","g","i","n","g"," ","t","r","e","n","d","s">>,
                 examples |-> <<(* "What trends are emerging?" *) <<"W","h","a","t"," ","t","r","e","n","d","s"," ","a","r","e"," ","e","m","e","r","g","i","n","g","?">>>>,
                 data_sources |-> <<"metrics", "alerts">> ]>> >> ]>>,
       <<"PREDICT",
         [ intents |-> <<
            <<"RISK_PREDICTION",
               [ description |-> (* "Predict failing risks" *) <<"P","r","e","d","i","c","t"," ","f","a","i","l","i","n","g"," ","r","i","s","k","s">>,
                 examples |-> <<(* "What might break?" *) <<"W","h","a","t"," ","m","i","g","h","t"," ","b","r","e","a","k","?">>, (* " IS IT?  " *) <<" ","I","S"," ","I","T","?"," "," ">>>> ]>> >> ]>> >>

SparseCatalog ==
    << <<"CAUSE",
         [ intents |-> <<
            <<"ROOT_CAUSE_SINGLE",
               [ examples |-> <<WhyFailing>> ]>> >> ]>>,
       <<"TREND",
         [ intents |-> <<
            <<"UNDERCURRENTS_TREND",
               [ description |-> (* "It is." *) <<"I","t"," ","i","s",".">> ]>> >> ]>>,
       <<"META",
         [ description |-> <<"m","e","t","a">> ]>> >>

Catalogs ==
    { FullCatalog, SparseCatalog }

\* A chain: RISK_PREDICTION has no rule of its own.
ChainRules ==
    [n \in {"ROOT_CAUSE_SINGLE", "UNDERCURRENTS_TREND"} |->
         IF n = "ROOT_CAUSE_SINGLE" THEN <<"UNDERCURRENTS_TREND">>
         ELSE <<"RISK_PREDICTION">>]

\* RISK_PREDICTION is a direct enrichment of ROOT_CAUSE_SINGLE and two hops away
\* through UNDERCURRENTS_TREND; ROOT_CAUSE_SINGLE is two hops away from itself
\* through its second direct enrichment.
FanRules ==
    [n \in {"ROOT_CAUSE_SINGLE", "UNDERCURRENTS_TREND", "RISK_PREDICTION"} |->
         IF n = "ROOT_CAUSE_SINGLE" THEN <<"UNDERCURRENTS_TREND", "RISK_PREDICTION">>
         ELSE IF n = "UNDERCURRENTS_TREND" THEN <<"RISK_PREDICTION">>
         ELSE <<"ROOT_CAUSE_SINGLE">>]

RuleSets ==
    { ChainRules, FanRules }

NoWeights ==
    <<>>

WeightArgs ==
    { NoWeights,
      (* weights that sum to more than 1 *)
      [ keyword_weight |-> Q(1, 1), similarity_weight |-> Q(7, 10) ] }

Queries ==
    { WhyFailing, IsIt }

IntentNames ==
    { "ROOT_CAUSE_SINGLE", "UNDERCURRENTS_TREND", "RISK_PREDICTION" }

(***************************************************************************)
(* Python dicts.  dict_get is d.get(k, default) on a dict that is only      *)
(* looked up (a function); DictSet is d[k] = v on a dict whose insertion    *)
(* order is kept (a sequence of <<key, value>> pairs).                      *)
(***************************************************************************)
None == "None"

dict_get(d, k, default) ==
    IF k \in DOMAIN d THEN d[k] ELSE default

DictKeys(d) ==
    { d[i][1] : i \in DOMAIN d }

\* A faulty d[k] = v: the item is appended even when the key is there already.
AppendItem(d, k, v) ==
    Append(d, <<k, v>>)

DictSet(d, k, v) ==
    IF k \in DictKeys(d)
    THEN [i \in DOMAIN d |-> IF d[i][1] = k THEN <<k, v>> ELSE d[i]]
    ELSE Append(d, <<k, v>>)

DictLookup(d, k) ==
    d[CHOOSE i \in DOMAIN d : d[i][1] = k][2]

RECURSIVE Flatten(_)
Flatten(seqs) ==
    IF seqs = <<>> THEN <<>> ELSE Head(seqs) \o Flatten(Tail(seqs))

(***************************************************************************)
(* IntentConfidenceMapper.__init__ and the lookup structures it builds.     *)
(* intent_categories is a sequence of <<category, category_data>> items;    *)
(* category_data may hold "intents", a sequence of <<intent_name,           *)
(* intent_data>> items; intent_data may hold "description" and "examples".  *)
(***************************************************************************)
\* The (intent_name, intent_data) items of every category that has 'intents',
\* in the order the two nested loops visit them.
IntentItems(intent_categories) ==
    Flatten([c \in DOMAIN intent_categories |->
                IF "intents" \in DOMAIN intent_categories[c][2]
                THEN intent_categories[c][2]["intents"] ELSE <<>>])

_build_valid_intents(intent_categories) ==
    DictKeys(IntentItems(intent_categories))

\* The value the loops leave under name n: that of the last item named n.
LastItem(items, n) ==
    items[CHOOSE i \in DOMAIN items :
              items[i][1] = n /\ \A j \in DOMAIN items : items[j][1] = n => j <= i][2]

\* A faulty keyword index: the keywords of the description only.
DescriptionKeywordsOnly(intent_data) ==
    Range(_extract_keywords(dict_get(intent_data, "description", <<>>)))

IntentKeywordsOf(intent_data) ==
    LET description == dict_get(intent_data, "description", <<>>)
        examples == dict_get(intent_data, "examples", <<>>)
    IN  Range(_extract_keywords(description))
          \cup UNION { Range(_extract_keywords(examples[i])) : i \in DOMAIN examples }

\* intent_keywords[n] is list(set(keywords)): a list in no specified order that
\* the mapper only ever reads through set(); it is modelled as the set.
_build_intent_keywords(intent_categories) ==
    LET items == IntentItems(intent_categories)
    IN  [n \in DictKeys(items) |-> IntentKeywordsOf(LastItem(items, n))]

_build_intent_examples(intent_categories) ==
    LET items == IntentItems(intent_categories)
    IN  [n \in DictKeys(items) |-> dict_get(LastItem(items, n), "examples", <<>>)]

(***************************************************************************)
(* _calculate_text_similarity and _extract_keywords are pure: their values  *)
(* on the texts of the model are computed once and looked up afterwards.    *)
(***************************************************************************)
\* The texts _calculate_text_similarity is applied to.
SimilarityTexts ==
    Queries
    \cup UNION { Range(dict_get(IntentItems(c)[i][2], "examples", <<>>)) :
                   <<c, i>> \in { <<c, i>> \in Catalogs \X (1..8) : i \in DOMAIN IntentItems(c) } }
    \cup { (* "" *) <<>>, (* "why FAILING" *) <<"w","h","y"," ","F","A","I","L","I","N","G">> }

SimilarityMemo ==
    { <<pair, _calculate_text_similarity(pair[1], pair[2])>> :
          pair \in SimilarityTexts \X SimilarityTexts }

\* _calculate_text_similarity(text1, text2), looked up
TextSimilarity(text1, text2) ==
    (CHOOSE m \in SimilarityMemo : m[1] = <<text1, text2>>)[2]

MaxTokens == 3

\* Texts of up to MaxTokens words separated by a space: words with capitals,
\* punctuation, a hyphen, an apostrophe, a leading space, stop words, short words.
KeywordTexts ==
    LET vocabulary == { <<"W","h","y">>, <<"i","s">>, <<"t","h","e">>,
                        <<"p","a","y","m","e","n","t","-","a","p","i">>,
                        <<"f","a","i","l","i","n","g","?">>, <<"D","B">>,
                        <<"F","a","i","l","i","n","g">>, <<"w","h","a","t","'","s">>,
                        <<" ","h","o","w">> }
        joined(ws) == Flatten([i \in DOMAIN ws |->
                                  IF i = 1 THEN ws[i] ELSE <<" ">> \o ws[i]])
    IN  { joined(ws) : ws \in UNION { [1..k -> vocabulary] : k \in 0..MaxTokens } }

KeywordsMemo ==
    { <<text, _extract_keywords(text)>> : text \in Queries \cup KeywordTexts }

\* _extract_keywords(text), looked up
Keywords(text) ==
    (CHOOSE m \in KeywordsMemo : m[1] = text)[2]

\* kwargs holds the weights the caller configured, if any.
IntentConfidenceMapper(intent_categories, enrichment_rules, kwargs) ==
    [ intent_categories |-> intent_categories,
      enrichment_rules  |-> enrichment_rules,
      keyword_weight    |-> dict_get(kwargs, "keyword_weight", Q(4, 10)),
      similarity_weight |-> dict_get(kwargs, "similarity_weight", Q(6, 10)),
      all_valid_intents |-> _build_valid_intents(intent_categories),
      intent_keywords   |-> _build_intent_keywords(intent_categories),
      intent_examples   |-> _build_intent_examples(intent_categories) ]

(***************************************************************************)
(* IntentConfidenceMapper.get_confidence_level and the bucket label that    *)
(* calculate_primary_intent_confidence appends.                             *)
(***************************************************************************)
get_confidence_level(score) ==
    IF RGe(score, Q(7, 10)) THEN "HIGH"
    ELSE IF RGe(score, Q(4, 10)) THEN "MEDIUM"
    ELSE IF RGe(score, Q(2, 10)) THEN "LOW"
    ELSE "VERY_LOW"

\* A faulty bucket label: MEDIUM starts at 0.5.
BucketAtHalf(final_score) ==
    IF RGe(final_score, Q(7, 10)) THEN <<"HIGH confidence - strong match">>
    ELSE IF RGe(final_score, Q(5, 10)) THEN <<"MEDIUM confidence - acceptable match">>
    ELSE IF RGe(final_score, Q(2, 10)) THEN <<"LOW confidence - weak match">>
    ELSE <<"VERY LOW confidence - questionable match">>

BucketReasoning(final_score) ==
    IF RGe(final_score, Q(7, 10)) THEN <<"HIGH confidence - strong match">>
    ELSE IF RGe(final_score, Q(4, 10)) THEN <<"MEDIUM confidence - acceptable match">>
    ELSE IF RGe(final_score, Q(2, 10)) THEN <<"LOW confidence - weak match">>
    ELSE <<"VERY LOW confidence - questionable match">>

(***************************************************************************)
(* IntentConfidenceMapper.calculate_primary_intent_confidence               *)
(* A reasoning entry is a tuple: the fixed text of the f-string followed by *)
(* the values it interpolates (their rendering is not modelled).            *)
(***************************************************************************)
\* A faulty iteration of the loop over the examples: the last example wins.
LastExample(similarity, example, best) ==
    <<similarity, example>>

\* One iteration of the loop over the examples; best is
\* <<max_similarity, best_example>>.
BetterExample(similarity, example, best) ==
    IF RGt(similarity, best[1]) THEN <<similarity, example>> ELSE best

\* The loop over the examples: <<max_similarity, best_example>> after it.
RECURSIVE BestExample(_, _, _)
BestExample(query, examples, best) ==
    IF examples = <<>> THEN best
    ELSE BestExample(query, Tail(examples),
             BetterExample(TextSimilarity(query, Head(examples)), Head(examples), best))

\* A faulty F1: the arithmetic mean of precision and recall.
ArithmeticMean(precision, recall) ==
    RDiv(RAdd(precision, recall), Q(2, 1))

F1Score(precision, recall) ==
    IF RGt(RAdd(precision, recall), RZero)
    THEN RDiv(RMul(Q(2, 1), RMul(precision, recall)), RAdd(precision, recall))
    ELSE RZero

\* The keyword block: entered only when both keyword sets are non-empty.
KeywordMatch(query_keywords, intent_keywords) ==
    LET matched_keywords == query_keywords \cap intent_keywords
        scored == intent_keywords # {} /\ query_keywords # {}
        precision == Q(Cardinality(matched_keywords), Cardinality(query_keywords))
        recall == Q(Cardinality(matched_keywords), Cardinality(intent_keywords))
    IN  IF scored
        THEN [ scored |-> TRUE,
               keyword_match_score |-> F1Score(precision, recall),
               keyword_precision |-> precision,
               keyword_recall |-> recall,
               matched_keywords |-> matched_keywords,
               query_keywords |-> query_keywords,
               intent_keywords |-> intent_keywords ]
        ELSE [ scored |-> FALSE,
               keyword_match_score |-> RZero,
               matched_keywords |-> {} ]

\* A faulty example block: an intent without examples gets a neutral 0.5.
NeutralWithoutExamples(examples, best) ==
    IF examples # <<>> THEN best[1] ELSE Q(1, 2)

\* The example block: the score is 0.0 when the intent has no examples.
ExampleSimilarity(examples, best) ==
    IF examples # <<>> THEN best[1] ELSE RZero

FinalScore(self, keyword_match_score, example_similarity_score) ==
    RAdd(RMul(self.keyword_weight, keyword_match_score),
         RMul(self.similarity_weight, example_similarity_score))

InitialDetails(intent) ==
    [ intent |-> intent,
      is_valid |-> FALSE,
      keyword_match_score |-> RZero,
      example_similarity_score |-> RZero,
      final_score |-> RZero,
      matched_keywords |-> {},
      reasoning |-> <<>> ]

ValidReasoning(intent, km, examples, best, final_score) ==
    << <<"Intent is valid", intent>> >>
    \o (IF km.scored /\ km.matched_keywords # {}
        THEN << <<"Matched query keywords", Cardinality(km.matched_keywords),
                  Cardinality(km.query_keywords), km.matched_keywords>>,
                <<"Precision, Recall, F1", km.keyword_precision, km.keyword_recall,
                  km.keyword_match_score>> >>
        ELSE <<>>)
    \o (IF examples # <<>> /\ RGt(best[1], Q(3, 10))
        THEN << <<"Query similar to example", best[2], best[1]>> >>
        ELSE <<>>)
    \o << BucketReasoning(final_score) >>

ValidDetails(self, intent, km, example_similarity_score, final_score, reasoning) ==
    LET details == [ InitialDetails(intent) EXCEPT
                       !.is_valid = TRUE,
                       !.keyword_match_score = km.keyword_match_score,
                       !.example_similarity_score = example_similarity_score,
                       !.final_score = final_score,
                       !.matched_keywords = km.matched_keywords,
                       !.reasoning = reasoning ]
        weights == [ weights_used |-> [ keyword |-> self.keyword_weight,
                                        similarity |-> self.similarity_weight ] ]
        keyword_details == [ keyword_precision |-> km.keyword_precision,
                             keyword_recall |-> km.keyword_recall,
                             query_keywords |-> km.query_keywords,
                             intent_keywords |-> km.intent_keywords ]
    IN  IF km.scored THEN details @@ keyword_details @@ weights
        ELSE details @@ weights

\* The return statement of a valid intent, final_score computed.
ValidResult(self, intent, km, examples, best, final_score) ==
    [ score |-> final_score,
      details |-> ValidDetails(self, intent, km, ExampleSimilarity(examples, best),
                      final_score, ValidReasoning(intent, km, examples, best, final_score)) ]

\* The body after the validity check: km is the keyword block's outcome, best
\* the example loop's.
ScoreValidIntent(self, intent, km, examples, best) ==
    ValidResult(self, intent, km, examples, best,
        FinalScore(self, km.keyword_match_score, ExampleSimilarity(examples, best)))

calculate_primary_intent_confidence(self, query, intent) ==
    IF intent \notin self.all_valid_intents
    THEN [ score |-> RZero,
           details |-> [InitialDetails(intent) EXCEPT
                          !.reasoning = << <<"Intent not found in configuration", intent>> >>] ]
    ELSE ScoreValidIntent(self, intent,
             KeywordMatch(Range(Keywords(query)), dict_get(self.intent_keywords, intent, {})),
             dict_get(self.intent_examples, intent, <<>>),
             BestExample(query, dict_get(self.intent_examples, intent, <<>>), <<RZero, None>>))

(***************************************************************************)
(* IntentConfidenceMapper.calculate_enrichment_confidence                   *)
(***************************************************************************)
DirectScore == Q(1, 1)

SecondaryScore == Q(8, 10)

\* A faulty loop over the direct enrichments: it gives up after the first.
FirstDirectOnly(self, direct_enrichments, enrichment_intent) ==
    IF direct_enrichments # <<>>
       /\ enrichment_intent \in
              Range(dict_get(self.enrichment_rules, Head(direct_enrichments), <<>>))
    THEN Head(direct_enrichments)
    ELSE None

\* A faulty loop over the direct enrichments: it looks one hop further.
ThirdHopSearch(self, direct_enrichments, enrichment_intent) ==
    LET listed(d) == Range(dict_get(self.enrichment_rules, d, <<>>))
        hit(d) == \/ enrichment_intent \in listed(d)
                  \/ \E m \in listed(d) : enrichment_intent \in listed(m)
        hits == { i \in DOMAIN direct_enrichments : hit(direct_enrichments[i]) }
    IN  IF hits = {} THEN None
        ELSE direct_enrichments[CHOOSE i \in hits : \A j \in hits : i <= j]

\* The first direct enrichment whose own rule lists the candidate, or None.
RECURSIVE FirstSecondary(_, _, _)
FirstSecondary(self, direct_enrichments, enrichment_intent) ==
    IF direct_enrichments = <<>> THEN None
    ELSE IF enrichment_intent \in
              Range(dict_get(self.enrichment_rules, Head(direct_enrichments), <<>>))
         THEN Head(direct_enrichments)
         ELSE FirstSecondary(self, Tail(direct_enrichments), enrichment_intent)

EnrichmentDetails(primary_intent, enrichment_intent) ==
    [ primary_intent |-> primary_intent,
      enrichment_intent |-> enrichment_intent,
      is_valid_enrichment |-> FALSE,
      is_valid_intent |-> FALSE,
      enrichment_depth |-> 0,
      final_score |-> RZero,
      reasoning |-> <<>> ]

\* The body after the validity check; via is the outcome of the loop over the
\* direct enrichments.
ScoreValidEnrichment(self, primary_intent, enrichment_intent, via) ==
    IF enrichment_intent \in Range(dict_get(self.enrichment_rules, primary_intent, <<>>))
    THEN [ score |-> DirectScore,
           details |-> [EnrichmentDetails(primary_intent, enrichment_intent) EXCEPT
               !.is_valid_intent = TRUE,
               !.is_valid_enrichment = TRUE,
               !.enrichment_depth = 1,
               !.final_score = DirectScore,
               !.reasoning = << <<"Direct enrichment rule",
                                  primary_intent, enrichment_intent>> >>] ]
    ELSE IF via # None
    THEN [ score |-> SecondaryScore,
           details |-> [EnrichmentDetails(primary_intent, enrichment_intent) EXCEPT
               !.is_valid_intent = TRUE,
               !.is_valid_enrichment = TRUE,
               !.enrichment_depth = 2,
               !.final_score = SecondaryScore,
               !.reasoning = << <<"Secondary enrichment",
                                  primary_intent, via, enrichment_intent>> >>] ]
    ELSE [ score |-> RZero,
           details |-> [EnrichmentDetails(primary_intent, enrichment_intent) EXCEPT
               !.is_valid_intent = TRUE,
               !.reasoning = << <<"No enrichment rule found",
                                  primary_intent, enrichment_intent>> >>] ]

\* A faulty calculate_enrichment_confidence: the validity check is missing.
UngatedEnrichment(self, primary_intent, enrichment_intent) ==
    ScoreValidEnrichment(self, primary_intent, enrichment_intent,
        FirstSecondary(self, dict_get(self.enrichment_rules, primary_intent, <<>>),
                       enrichment_intent))

\* A faulty calculate_enrichment_confidence: it also requires the primary
\* intent to be an intent of the catalog.
PrimaryGatedEnrichment(self, primary_intent, enrichment_intent) ==
    IF enrichment_intent \notin self.all_valid_intents
       \/ primary_intent \notin self.all_valid_intents
    THEN [ score |-> RZero,
           details |-> [EnrichmentDetails(primary_intent, enrichment_intent) EXCEPT
               !.reasoning = << <<"Enrichment not found in configuration",
                                  enrichment_intent>> >>] ]
    ELSE ScoreValidEnrichment(self, primary_intent, enrichment_intent,
             FirstSecondary(self, dict_get(self.enrichment_rules, primary_intent, <<>>),
                            enrichment_intent))

calculate_enrichment_confidence(self, primary_intent, enrichment_intent) ==
    IF enrichment_intent \notin self.all_valid_intents
    THEN [ score |-> RZero,
           details |-> [EnrichmentDetails(primary_intent, enrichment_intent) EXCEPT
               !.reasoning = << <<"Enrichment not found in configuration",
                                  enrichment_intent>> >>] ]
    ELSE ScoreValidEnrichment(self, primary_intent, enrichment_intent,
             FirstSecondary(self, dict_get(self.enrichment_rules, primary_intent, <<>>),
                            enrichment_intent))

(***************************************************************************)
(* IntentConfidenceMapper.validate_classification_result                    *)
(* A recommendation is a tuple: the fixed text followed by the values the   *)
(* f-string interpolates.  st holds what the method accumulates: result's   *)
(* 'primary_intents', 'enrichments' and 'recommendations', and the lists    *)
(* primary_scores and enrichment_scores.                                    *)
(***************************************************************************)
InitialResult ==
    [ primary_intents |-> <<>>,
      enrichments |-> <<>>,
      recommendations |-> <<>>,
      primary_scores |-> <<>>,
      enrichment_scores |-> <<>> ]

\* The body of the loop over primary_intents, r being the calculator's result.
RecordPrimary(st, intent, r) ==
    [ st EXCEPT
        !.primary_intents =
            DictSet(@, intent, [confidence_score |-> r.score, details |-> r.details]),
        !.primary_scores = Append(@, r.score),
        !.recommendations =
            IF RLt(r.score, Q(4, 10))
            THEN Append(@, <<"Low confidence for primary intent", intent, r.score>>)
            ELSE @ ]

\* The loop over primary_intents from position i on.
RECURSIVE PrimaryLoop(_, _, _, _, _)
PrimaryLoop(self, query, primary_intents, i, st) ==
    IF i > Len(primary_intents) THEN st
    ELSE PrimaryLoop(self, query, primary_intents, i + 1,
             RecordPrimary(st, primary_intents[i],
                 calculate_primary_intent_confidence(self, query, primary_intents[i])))

\* A faulty inner loop body: the source is kept whatever its score.
AnySource(primary, r) ==
    << [primary |-> primary, score |-> r.score, details |-> r.details] >>

\* The source a primary intent contributes to an enrichment, if its score is > 0.
SourceOf(primary, r) ==
    IF RGt(r.score, RZero)
    THEN << [primary |-> primary, score |-> r.score, details |-> r.details] >>
    ELSE <<>>

\* A faulty inner loop: the sources are collected from the last primary intent
\* to the first.
RECURSIVE ReversedSources(_, _, _, _)
ReversedSources(self, primary_intents, enrichment, i) ==
    IF i > Len(primary_intents) THEN <<>>
    ELSE ReversedSources(self, primary_intents, enrichment, i + 1)
         \o SourceOf(primary_intents[i],
                calculate_enrichment_confidence(self, primary_intents[i], enrichment))

\* The inner loop over primary_intents for one enrichment: its sources, in order.
RECURSIVE EnrichmentSources(_, _, _, _)
EnrichmentSources(self, primary_intents, enrichment, i) ==
    IF i > Len(primary_intents) THEN <<>>
    ELSE SourceOf(primary_intents[i],
             calculate_enrichment_confidence(self, primary_intents[i], enrichment))
         \o EnrichmentSources(self, primary_intents, enrichment, i + 1)

SourceScores(enrichment_sources) ==
    [i \in DOMAIN enrichment_sources |-> enrichment_sources[i].score]

\* A faulty loop body: an enrichment without sources counts as a score of 0.0.
RecordUnlinkedScore(st, enrichment, enrichment_sources) ==
    [ st EXCEPT
        !.enrichments =
            DictSet(@, enrichment,
                IF enrichment_sources # <<>>
                THEN [ sources |-> enrichment_sources,
                       max_confidence |-> RMaxSeq(SourceScores(enrichment_sources)) ]
                ELSE [ sources |-> <<>>, max_confidence |-> RZero ]),
        !.enrichment_scores =
            IF enrichment_sources # <<>> THEN @ \o SourceScores(enrichment_sources)
            ELSE Append(@, RZero),
        !.recommendations =
            IF enrichment_sources # <<>> THEN @
            ELSE Append(@, <<"Enrichment has no valid link to primary intents",
                             enrichment>>) ]

\* The body of the loop over enrichment_intents after the inner loop.
RecordEnrichment(st, enrichment, enrichment_sources) ==
    [ st EXCEPT
        !.enrichments =
            DictSet(@, enrichment,
                IF enrichment_sources # <<>>
                THEN [ sources |-> enrichment_sources,
                       max_confidence |-> RMaxSeq(SourceScores(enrichment_sources)) ]
                ELSE [ sources |-> <<>>, max_confidence |-> RZero ]),
        !.enrichment_scores = @ \o SourceScores(enrichment_sources),
        !.recommendations =
            IF enrichment_sources # <<>> THEN @
            ELSE Append(@, <<"Enrichment has no valid link to primary intents",
                             enrichment>>) ]

\* The loop over enrichment_intents from position i on.
RECURSIVE EnrichmentLoop(_, _, _, _, _)
EnrichmentLoop(self, primary_intents, enrichment_intents, i, st) ==
    IF i > Len(enrichment_intents) THEN st
    ELSE EnrichmentLoop(self, primary_intents, enrichment_intents, i + 1,
             RecordEnrichment(st, enrichment_intents[i],
                 EnrichmentSources(self, primary_intents, enrichment_intents[i], 1)))

\* [e for e in enriched_intents if e not in primary_intents]
EnrichmentCandidates(primary_intents, enriched_intents) ==
    LET keep(e) == e \notin Range(primary_intents)
    IN  SelectSeq(enriched_intents, keep)

Mean(scores) ==
    RDiv(RSum(scores), Q(Len(scores), 1))

PrimaryConfidence(primary_scores) ==
    IF primary_scores # <<>> THEN Mean(primary_scores) ELSE RZero

\* A faulty default: no enrichment score counts as no confidence.
ZeroWhenEmpty(enrichment_scores) ==
    IF enrichment_scores # <<>> THEN Mean(enrichment_scores) ELSE RZero

EnrichmentConfidence(enrichment_scores) ==
    IF enrichment_scores # <<>> THEN Mean(enrichment_scores) ELSE ROne

\* A faulty blend: the plain average of the two confidences.
EvenBlend(primary_confidence, enrichment_confidence) ==
    RAdd(RMul(Q(1, 2), primary_confidence), RMul(Q(1, 2), enrichment_confidence))

OverallConfidence(primary_confidence, enrichment_confidence) ==
    RAdd(RMul(Q(8, 10), primary_confidence), RMul(Q(2, 10), enrichment_confidence))

\* A faulty choice of the overall recommendation: by overall_confidence.
ByOverallConfidence(primary_confidence, overall_confidence) ==
    IF RGe(overall_confidence, Q(7, 10))
        THEN <<"Overall confidence is HIGH. Classification looks good.">>
    ELSE IF RGe(overall_confidence, Q(4, 10))
        THEN <<"Overall confidence is MEDIUM. Review recommended.">>
    ELSE <<"Overall confidence is LOW. Manual review required.">>

OverallRecommendation(primary_confidence, overall_confidence) ==
    IF RGe(primary_confidence, Q(7, 10))
        THEN <<"Overall confidence is HIGH. Classification looks good.">>
    ELSE IF RGe(primary_confidence, Q(4, 10))
        THEN <<"Overall confidence is MEDIUM. Review recommended.">>
    ELSE <<"Overall confidence is LOW. Manual review required.">>

\* The end of the method: the confidences are stored and the overall
\* recommendation is inserted at position 0.
Summarise(query, st, primary_confidence, enrichment_confidence, overall_confidence) ==
    [ query |-> query,
      primary_intents |-> st.primary_intents,
      enrichments |-> st.enrichments,
      overall_confidence |-> overall_confidence,
      recommendations |->
          <<OverallRecommendation(primary_confidence, overall_confidence)>>
              \o st.recommendations,
      primary_confidence |-> primary_confidence,
      enrichment_confidence |-> enrichment_confidence ]

Aggregate(query, st, primary_confidence, enrichment_confidence) ==
    Summarise(query, st, primary_confidence, enrichment_confidence,
              OverallConfidence(primary_confidence, enrichment_confidence))

OverallOf(query, st) ==
    Aggregate(query, st, PrimaryConfidence(st.primary_scores),
              EnrichmentConfidence(st.enrichment_scores))

validate_classification_result(self, query, primary_intents, enriched_intents) ==
    OverallOf(query,
        EnrichmentLoop(self, primary_intents,
            EnrichmentCandidates(primary_intents, enriched_intents), 1,
            PrimaryLoop(self, query, primary_intents, 1, InitialResult)))

(***************************************************************************)
(* The state machine: a mapper is constructed, then its methods are called  *)
(* one at a time, in any order, with any arguments.                         *)
(***************************************************************************)
MaxPrimary == 2

MaxEnriched == 2

SeqsUpTo(S, n) ==
    UNION { [1..k -> S] : k \in 0..n }

LevelScores ==
    { Q(n, 20) : n \in 0..20 }

VARIABLES
    mapper,     \* the IntentConfidenceMapper instance (self)
    init_args,  \* the arguments __init__ was called with
    served,     \* TRUE once the mapper has served a call
    pc,         \* "idle": no call in progress; "returned": a call has returned
    call,       \* the method called and its arguments
    ret,        \* what the call returned: a (score, details) tuple as a record,
                \* any other value in a record of one field
    frames,     \* the invocations of validate_classification_result that
                \* concurrent callers have in progress: the local variables of each
    classifier, \* the IntentClassifier instance that owns the mapper, if any
    bedrock_calls, \* the requests the call in progress has sent to the model service
    scorer      \* the ConfidenceScorer instance, if any

vars == <<mapper, init_args, served, pc, call, ret, frames, classifier, bedrock_calls, scorer>>

NoCall == [op |-> "none"]

NoResult == [none |-> TRUE]

MaxThreads == 2

Threads ==
    1..MaxThreads

IdleFrame == [pc |-> "idle"]

\* No instance of the class has been constructed: the mapper is used on its
\* own, without an IntentClassifier or a ConfidenceScorer.
NoInstance == [none |-> TRUE]

Init ==
    /\ \E intent_categories \in Catalogs, enrichment_rules \in RuleSets, kwargs \in WeightArgs :
           /\ init_args = [ intent_categories |-> intent_categories,
                            enrichment_rules |-> enrichment_rules,
                            kwargs |-> kwargs ]
           /\ mapper = IntentConfidenceMapper(intent_categories, enrichment_rules, kwargs)
    /\ served = FALSE
    /\ pc = "idle"
    /\ call = NoCall
    /\ ret = NoResult
    /\ frames = [t \in Threads |-> IdleFrame]
    /\ classifier = NoInstance
    /\ bedrock_calls = <<>>
    /\ scorer = NoInstance

ExtractKeywords(text) ==
    /\ pc = "idle"
    /\ call' = [op |-> "_extract_keywords", text |-> text]
    /\ ret' = [keywords |-> Keywords(text)]
    /\ pc' = "returned"
    /\ UNCHANGED <<mapper, init_args, served, frames, classifier, bedrock_calls, scorer>>

CalculateTextSimilarity(text1, text2) ==
    /\ pc = "idle"
    /\ call' = [op |-> "_calculate_text_similarity", text1 |-> text1, text2 |-> text2]
    /\ ret' = [similarity |-> TextSimilarity(text1, text2)]
    /\ pc' = "returned"
    /\ UNCHANGED <<mapper, init_args, served, frames, classifier, bedrock_calls, scorer>>

\* A faulty calculate_primary_intent_confidence: it registers the intent it is
\* asked about as a valid one.
CalculatePrimaryRegistering(query, intent) ==
    /\ pc = "idle"
    /\ call' = [op |-> "calculate_primary_intent_confidence",
                query |-> query, intent |-> intent]
    /\ ret' = calculate_primary_intent_confidence(mapper, query, intent)
    /\ mapper' = [mapper EXCEPT !.all_valid_intents = @ \cup {intent}]
    /\ pc' = "returned"
    /\ UNCHANGED <<init_args, served, frames, classifier, bedrock_calls, scorer>>

CalculatePrimary(query, intent) ==
    /\ pc = "idle"
    /\ call' = [op |-> "calculate_primary_intent_confidence",
                query |-> query, intent |-> intent]
    /\ ret' = calculate_primary_intent_confidence(mapper, query, intent)
    /\ pc' = "returned"
    /\ UNCHANGED <<mapper, init_args, served, frames, classifier, bedrock_calls, scorer>>

CalculateEnrichment(primary_intent, enrichment_intent) ==
    /\ pc = "idle"
    /\ call' = [op |-> "calculate_enrichment_confidence",
                primary_intent |-> primary_intent,
                enrichment_intent |-> enrichment_intent]
    /\ ret' = calculate_enrichment_confidence(mapper, primary_intent, enrichment_intent)
    /\ pc' = "returned"
    /\ UNCHANGED <<mapper, init_args, served, frames, classifier, bedrock_calls, scorer>>

Validate(query, primary_intents, enriched_intents) ==
    /\ pc = "idle"
    /\ call' = [op |-> "validate_classification_result", query |-> query,
                primary_intents |-> primary_intents,
                enriched_intents |-> enriched_intents]
    /\ ret' = validate_classification_result(mapper, query, primary_intents, enriched_intents)
    /\ pc' = "returned"
    /\ UNCHANGED <<mapper, init_args, served, frames, classifier, bedrock_calls, scorer>>

GetConfidenceLevel(score) ==
    /\ pc = "idle"
    /\ call' = [op |-> "get_confidence_level", score |-> score]
    /\ ret' = [level |-> get_confidence_level(score)]
    /\ pc' = "returned"
    /\ UNCHANGED <<mapper, init_args, served, frames, classifier, bedrock_calls, scorer>>

\* The caller takes the result; the mapper is ready for the next call.
Return ==
    /\ pc = "returned"
    /\ pc' = "idle"
    /\ served' = TRUE
    /\ call' = NoCall
    /\ ret' = NoResult
    /\ UNCHANGED <<mapper, init_args, frames, classifier, bedrock_calls, scorer>>

Next ==
    \/ \E text \in Queries : ExtractKeywords(text)
    \/ \E text1 \in SimilarityTexts, text2 \in SimilarityTexts :
           CalculateTextSimilarity(text1, text2)
    \/ \E query \in Queries, intent \in IntentNames : CalculatePrimary(query, intent)
    \/ \E p \in IntentNames, e \in IntentNames : CalculateEnrichment(p, e)
    \/ \E query \in Queries, primary_intents \in SeqsUpTo(IntentNames, MaxPrimary),
          enriched_intents \in SeqsUpTo(IntentNames, MaxEnriched) :
           Validate(query, primary_intents, enriched_intents)
    \/ \E score \in LevelScores : GetConfidenceLevel(score)
    \/ Return

Spec == Init /\ [][Next]_vars

(***************************************************************************)
(* _simple_stem and _extract_keywords on their own: they read nothing of   *)
(* the mapper, and are called here on every word and every text of bounded  *)
(* sets, on a mapper constructed from an empty catalog.                     *)
(***************************************************************************)
MaxWordLen == 6

\* Every word of the letters of the suffixes the stemmer knows, and some words.
Words ==
    SeqsUpTo({ "c", "d", "e", "g", "i", "n", "s" }, MaxWordLen)
    \cup { <<"r","u","n","n","i","n","g">>,
           <<"s","e","r","v","i","c","e","s">>,
           <<"s","e","r","v","i","c","e">>,
           <<"f","a","i","l","i","n","g">>,
           <<"i","s">>,
           <<"p","a","s","s","i","n","g">>,
           <<"s","t","u","d","i","e","s">>,
           <<"a","g","r","e","e","d">>,
           <<"s","e","e","i","n","g">> }

StemInit ==
    /\ init_args = [ intent_categories |-> <<>>, enrichment_rules |-> <<>>,
                     kwargs |-> NoWeights ]
    /\ mapper = IntentConfidenceMapper(<<>>, <<>>, NoWeights)
    /\ served = FALSE
    /\ pc = "idle"
    /\ call = NoCall
    /\ ret = NoResult
    /\ frames = [t \in Threads |-> IdleFrame]
    /\ classifier = NoInstance
    /\ bedrock_calls = <<>>
    /\ scorer = NoInstance

SimpleStem(word) ==
    /\ pc = "idle"
    /\ call' = [op |-> "_simple_stem", word |-> word]
    /\ ret' = [stem |-> _simple_stem(word)]
    /\ pc' = "returned"
    /\ UNCHANGED <<mapper, init_args, served, frames, classifier, bedrock_calls, scorer>>

StemNext ==
    \/ /\ pc = "idle"
       /\ \E word \in Words : SimpleStem(word)
    \/ /\ pc = "idle"
       /\ \E text \in KeywordTexts : ExtractKeywords(text)

StemSpec == StemInit /\ [][StemNext]_vars

(***************************************************************************)
(* Concurrent callers of validate_classification_result on one mapper.  An  *)
(* invocation advances by one loop iteration at a time, the invocations of  *)
(* the other callers advancing in between; its local variables (result,     *)
(* primary_scores, enrichment_scores, enrichment_intents, the position in   *)
(* the loop) are its frame.                                                 *)
(***************************************************************************)
\* The arguments the concurrent callers pass: <<query, primary_intents,
\* enriched_intents>>.
ConcurrentCalls ==
    { <<WhyFailing, <<"ROOT_CAUSE_SINGLE", "UNDERCURRENTS_TREND">>,
                    <<"RISK_PREDICTION", "ROOT_CAUSE_SINGLE">>>>,
      <<IsIt, <<"UNDERCURRENTS_TREND">>, <<"RISK_PREDICTION", "RISK_PREDICTION">>>>,
      <<WhyFailing, <<>>, <<"ROOT_CAUSE_SINGLE">>>> }

\* The caller's frames once one of them is replaced.
WithFrame(t, frame) ==
    [frames EXCEPT ![t] = frame]

\* result = {...}; primary_scores = []: the invocation allocates its own.
BeginValidate(t, query, primary_intents, enriched_intents) ==
    /\ frames[t].pc = "idle"
    /\ frames' = WithFrame(t,
           [ pc |-> "primary",
             call |-> [op |-> "validate_classification_result", query |-> query,
                       primary_intents |-> primary_intents,
                       enriched_intents |-> enriched_intents],
             i |-> 1,
             st |-> InitialResult,
             enrichment_intents |-> <<>> ])
    /\ UNCHANGED <<mapper, init_args, served, pc, call, ret, classifier, bedrock_calls, scorer>>

\* A faulty iteration of the loop over primary_intents: result and
\* primary_scores belong to the mapper, every invocation in progress writes to
\* the same.
ScorePrimaryShared(t) ==
    /\ frames[t].pc = "primary"
    /\ frames[t].i <= Len(frames[t].call.primary_intents)
    /\ LET intent == frames[t].call.primary_intents[frames[t].i]
           r == calculate_primary_intent_confidence(mapper, frames[t].call.query, intent)
       IN  frames' = [u \in Threads |->
                         IF frames[u].pc \in {"primary", "enrichment"}
                         THEN [frames[u] EXCEPT
                                 !.st = RecordPrimary(@, intent, r),
                                 !.i = IF u = t THEN @ + 1 ELSE @]
                         ELSE frames[u]]
    /\ UNCHANGED <<mapper, init_args, served, pc, call, ret, classifier, bedrock_calls, scorer>>

\* One iteration of the loop over primary_intents.
ScorePrimary(t) ==
    /\ frames[t].pc = "primary"
    /\ frames[t].i <= Len(frames[t].call.primary_intents)
    /\ LET intent == frames[t].call.primary_intents[frames[t].i]
           r == calculate_primary_intent_confidence(mapper, frames[t].call.query, intent)
       IN  frames' = WithFrame(t, [frames[t] EXCEPT
                                     !.st = RecordPrimary(@, intent, r),
                                     !.i = @ + 1])
    /\ UNCHANGED <<mapper, init_args, served, pc, call, ret, classifier, bedrock_calls, scorer>>

\* enrichment_scores = []; enrichment_intents = [...], after the last primary
\* intent.
FilterEnrichments(t) ==
    /\ frames[t].pc = "primary"
    /\ frames[t].i > Len(frames[t].call.primary_intents)
    /\ frames' = WithFrame(t, [frames[t] EXCEPT
           !.pc = "enrichment",
           !.i = 1,
           !.enrichment_intents =
               EnrichmentCandidates(frames[t].call.primary_intents,
                                    frames[t].call.enriched_intents)])
    /\ UNCHANGED <<mapper, init_args, served, pc, call, ret, classifier, bedrock_calls, scorer>>

\* One iteration of the loop over enrichment_intents, its inner loop included.
ScoreEnrichment(t) ==
    /\ frames[t].pc = "enrichment"
    /\ frames[t].i <= Len(frames[t].enrichment_intents)
    /\ LET enrichment == frames[t].enrichment_intents[frames[t].i]
           enrichment_sources ==
               EnrichmentSources(mapper, frames[t].call.primary_intents, enrichment, 1)
       IN  frames' = WithFrame(t, [frames[t] EXCEPT
                                     !.st = RecordEnrichment(@, enrichment, enrichment_sources),
                                     !.i = @ + 1])
    /\ UNCHANGED <<mapper, init_args, served, pc, call, ret, classifier, bedrock_calls, scorer>>

\* The confidences, the overall recommendation and the return statement.
FinishValidate(t) ==
    /\ frames[t].pc = "enrichment"
    /\ frames[t].i > Len(frames[t].enrichment_intents)
    /\ frames' = WithFrame(t,
           [ pc |-> "returned",
             call |-> frames[t].call,
             result |-> OverallOf(frames[t].call.query, frames[t].st) ])
    /\ UNCHANGED <<mapper, init_args, served, pc, call, ret, classifier, bedrock_calls, scorer>>

\* The caller takes the result and may call again.
TakeResult(t) ==
    /\ frames[t].pc = "returned"
    /\ frames' = WithFrame(t, IdleFrame)
    /\ UNCHANGED <<mapper, init_args, served, pc, call, ret, classifier, bedrock_calls, scorer>>

ConcurrentNext ==
    \E t \in Threads :
        \/ \E c \in ConcurrentCalls : BeginValidate(t, c[1], c[2], c[3])
        \/ ScorePrimary(t)
        \/ FilterEnrichments(t)
        \/ ScoreEnrichment(t)
        \/ FinishValidate(t)
        \/ TakeResult(t)

ConcurrentSpec == Init /\ [][ConcurrentNext]_vars

(***************************************************************************)
(* IntentClassifier (intent_classifier.py).  The classifier owns a mapper   *)
(* constructed with the default weights (the variable mapper) and sends one *)
(* request per query to a model service.  What the service does with a      *)
(* request is the environment's choice: it raises ClientError, raises       *)
(* another exception, answers with a body that is not JSON, answers with a  *)
(* JSON body without content, or answers with a message text.  The system   *)
(* prompt is only sent and measured: it is modelled by its length.          *)
(***************************************************************************)
\* str.find(ch): the position of the first occurrence, counted from 1; 0 if none
find(text, ch) ==
    IF \E i \in DOMAIN text : text[i] = ch
    THEN CHOOSE i \in DOMAIN text : text[i] = ch /\ \A j \in 1..(i - 1) : text[j] # ch
    ELSE 0

\* str.rfind(ch): the position of the last occurrence, counted from 1; 0 if none
rfind(text, ch) ==
    IF \E i \in DOMAIN text : text[i] = ch
    THEN CHOOSE i \in DOMAIN text : text[i] = ch /\ \A j \in (i + 1)..Len(text) : text[j] # ch
    ELSE 0

\* The str of a sequence of characters.
RECURSIVE Join(_)
Join(chars) ==
    IF chars = <<>> THEN "" ELSE Head(chars) \o Join(Tail(chars))

RECURSIVE SplitAt(_, _)
SplitAt(text, ch) ==
    LET p == find(text, ch)
    IN  IF p = 0 THEN <<text>>
        ELSE <<SubSeq(text, 1, p - 1)>> \o SplitAt(SubSeq(text, p + 1, Len(text)), ch)

\* json.loads on the texts a model answers with: an array of strings is parsed
\* to the list of the strings, any other text raises JSONDecodeError.
json_loads(text) ==
    LET t == strip(text)
        inner == strip(SubSeq(t, 2, Len(t) - 1))
        parts == SplitAt(inner, ",")
        items == [i \in DOMAIN parts |-> strip(parts[i])]
        \* a JSON string without escapes
        IsJsonString(item) ==
            /\ Len(item) >= 2
            /\ item[1] = "\""
            /\ item[Len(item)] = "\""
            /\ \A i \in 2..(Len(item) - 1) : item[i] \notin {"\"", "\\"}
        JsonError == [ok |-> FALSE]
    IN  IF Len(t) < 2 \/ t[1] # "[" \/ t[Len(t)] # "]" THEN JsonError
        ELSE IF inner = <<>> THEN [ok |-> TRUE, value |-> <<>>]
        ELSE IF \A i \in DOMAIN items : IsJsonString(items[i])
             THEN [ok |-> TRUE,
                   value |-> [i \in DOMAIN items |->
                                 Join(SubSeq(items[i], 2, Len(items[i]) - 1))]]
             ELSE JsonError

\* sorted(list(s)) for a set of the names of the model: Python orders str by
\* code point, which for these names is the order of this list.
SortedNames ==
    <<"RISK_PREDICTION", "ROOT_CAUSE_SINGLE", "UNDERCURRENTS_TREND",
      "alerts", "logs", "metrics">>

sorted(s) ==
    LET member(name) == name \in s
    IN  SelectSeq(SortedNames, member)

\* round(x, 6) for a float x >= 0: the nearest multiple of 10^-6.  When the exact
\* value is half way between two of them, the float that stands for it lies on
\* one side or the other, and up says which.
round6(x, up) ==
    LET g == Gcd(1000000, x[2])
        n == x[1] * (1000000 \div g)
        d == x[2] \div g
        q == n \div d
        r == n % d
    IN  IF 2 * r < d THEN Q(q, 1000000)
        ELSE IF 2 * r > d THEN Q(q + 1, 1000000)
        ELSE IF up THEN Q(q + 1, 1000000) ELSE Q(q, 1000000)

CHARS_PER_TOKEN == 4

\* calculate_token_consumption(system_prompt, user_query, response, model_id),
\* given the length of the system prompt and the sides of the half-way values
calculate_token_consumption(system_chars, user_query, response, model_id, halfway) ==
    LET \* int(x) for a float x >= 0
        int(x) == x[1] \div x[2]
        model_pricing == [ input |-> Q(3, 1000), output |-> Q(15, 1000) ]
        query_chars == Len(user_query)
        response_chars == Len(response)
        system_tokens == Q(system_chars, CHARS_PER_TOKEN)
        query_tokens == Q(query_chars, CHARS_PER_TOKEN)
        response_tokens == Q(response_chars, CHARS_PER_TOKEN)
        input_tokens == RAdd(system_tokens, query_tokens)
        output_tokens == response_tokens
        total_tokens == RAdd(input_tokens, output_tokens)
        input_cost == RMul(RDiv(input_tokens, Q(1000, 1)), model_pricing.input)
        output_cost == RMul(RDiv(output_tokens, Q(1000, 1)), model_pricing.output)
        total_cost == RAdd(input_cost, output_cost)
    IN  [ input_tokens |-> int(input_tokens),
          output_tokens |-> int(output_tokens),
          total_tokens |-> int(total_tokens),
          breakdown |-> [ system_prompt_tokens |-> int(system_tokens),
                          user_query_tokens |-> int(query_tokens),
                          response_tokens |-> int(response_tokens) ],
          cost_usd |-> [ input |-> round6(input_cost, halfway["input"]),
                         output |-> round6(output_cost, halfway["output"]),
                         total |-> round6(total_cost, halfway["total"]) ],
          model |-> model_id,
          note |-> "Approximate calculation using ~4 chars/token. Actual may vary." ]

\* _build_intent_data_source_map: intent name -> its data_sources, for the
\* intents that declare some; a later category overwrites an earlier one.
_build_intent_data_source_map(intent_categories) ==
    LET items == Flatten([i \in DOMAIN intent_categories |->
                     IF "intents" \in DOMAIN intent_categories[i][2]
                     THEN intent_categories[i][2].intents ELSE <<>>])
        declared == { i \in DOMAIN items : "data_sources" \in DOMAIN items[i][2] }
        last(name) == CHOOSE i \in declared :
                          items[i][1] = name /\ \A j \in declared : items[j][1] = name => j <= i
    IN  [name \in { items[i][1] : i \in declared } |-> items[last(name)][2].data_sources]

PromptHeaderChars == 236

PromptFooterChars == 409

RECURSIVE SumOf(_)
SumOf(numbers) ==
    IF numbers = <<>> THEN 0 ELSE Head(numbers) + SumOf(Tail(numbers))

\* len(self._build_system_prompt())
_build_system_prompt(intent_categories) ==
    LET \* the characters added for one intent
        IntentPromptChars(intent_name, intent_data) ==
            2 + Len(intent_name) + 2 + Len(dict_get(intent_data, "description", <<>>)) + 1
            + (IF "examples" \in DOMAIN intent_data /\ intent_data.examples # <<>>
               THEN 12 + Len(intent_data.examples[1]) + 2 ELSE 0)
        CategoryChars(category, category_data) ==
            IF "intents" \in DOMAIN category_data
            THEN Len(category) + 2
                 + SumOf([i \in DOMAIN category_data.intents |->
                             IntentPromptChars(category_data.intents[i][1],
                                               category_data.intents[i][2])])
                 + 1
            ELSE 0
    IN  PromptHeaderChars
        + SumOf([i \in DOMAIN intent_categories |->
                    CategoryChars(intent_categories[i][1], intent_categories[i][2])])
        + PromptFooterChars

NoConsumption == [none |-> TRUE]

\* IntentClassifier.__init__ on the loaded catalog and rules; the mapper it
\* constructs is IntentConfidenceMapper(intent_categories, enrichment_rules).
IntentClassifier(intent_categories, enrichment_rules) ==
    [ intent_categories |-> intent_categories,
      enrichment_rules |-> enrichment_rules,
      intent_to_data_sources |-> _build_intent_data_source_map(intent_categories),
      model_id |-> "anthropic.claude-3-5-sonnet-20241022-v2:0",
      system_prompt |-> _build_system_prompt(intent_categories),
      last_token_consumption |-> NoConsumption ]

Messages ==
    {
      (* "["ROOT_CAUSE_SINGLE"]" *)
      <<"[","\"","R","O","O","T","_","C","A","U","S","E","_","S","I","N","G","L","E","\"","]">>,
      (* "Intents: ["UNDERCURRENTS_TREND", "ROOT_CAUSE_SINGLE"]" *)
      <<"I","n","t","e","n","t","s",":"," ","[","\"","U","N","D","E","R","C","U","R","R","E","N","T","S","_","T","R","E","N","D","\"",","," ","\"","R","O","O","T","_","C","A","U","S","E","_","S","I","N","G","L","E","\"","]">>,
      (* "[]" *)
      <<"[","]">>,
      (* "["ROOT_CAUSE_SIN": an answer cut short *)
      <<"[","\"","R","O","O","T","_","C","A","U","S","E","_","S","I","N">>,
      (* "[ROOT_CAUSE_SINGLE]": the name is not quoted *)
      <<"[","R","O","O","T","_","C","A","U","S","E","_","S","I","N","G","L","E","]">> }

\* What bedrock_runtime.invoke_model and the read of its body come to.
ServiceOutcomes ==
    { [kind |-> k, text |-> <<>>] : k \in {"ClientError", "Exception", "NotJson", "NoContent"} }
    \cup { [kind |-> "Message", text |-> m] : m \in Messages }

\* The intents of _call_bedrock when the try block got as far as the message.
ParsedIntents(assistant_message) ==
    LET assistant_message_clean == strip(assistant_message)
        start_idx == find(assistant_message_clean, "[")
        end_idx == rfind(assistant_message_clean, "]")
    IN  IF start_idx # 0 /\ end_idx >= start_idx
        THEN json_loads(SubSeq(assistant_message_clean, start_idx, end_idx))
        ELSE json_loads(assistant_message_clean)

\* _call_bedrock: the (intents, raw response) it returns, the value it leaves in
\* self.last_token_consumption, and whether an exception escapes it.  A body
\* that is not JSON raises JSONDecodeError before assistant_message is bound,
\* and the handler of JSONDecodeError reads assistant_message.
_call_bedrock(self, user_query, outcome, halfway) ==
    LET failed == [ raised |-> "", intents |-> <<>>, llm_response |-> <<>>,
                    last_token_consumption |-> self.last_token_consumption ]
        parsed == ParsedIntents(outcome.text)
        consumption == calculate_token_consumption(self.system_prompt, user_query,
                                                   outcome.text, self.model_id, halfway)
    IN  CASE outcome.kind \in {"ClientError", "Exception", "NoContent"} -> failed
          [] outcome.kind = "NotJson" ->
                [failed EXCEPT !.raised = "UnboundLocalError"]
          [] outcome.kind = "Message" ->
                [ raised |-> "",
                  intents |-> IF parsed.ok THEN parsed.value ELSE <<>>,
                  llm_response |-> IF parsed.ok THEN outcome.text ELSE <<>>,
                  last_token_consumption |-> consumption ]

\* A faulty _get_enrichment_intents: the enrichments of the enrichments are
\* added as well.
TransitiveEnrichments(self, primary_intents) ==
    LET listed(S) == UNION { Range(self.enrichment_rules[intent]) :
                               intent \in S \cap DOMAIN self.enrichment_rules }
        direct == Range(primary_intents) \cup listed(Range(primary_intents))
    IN  direct \cup listed(direct)

_get_enrichment_intents(self, primary_intents) ==
    Range(primary_intents)
    \cup UNION { Range(self.enrichment_rules[intent]) :
                   intent \in Range(primary_intents) \cap DOMAIN self.enrichment_rules }

_get_data_sources(self, intents) ==
    sorted(UNION { Range(self.intent_to_data_sources[intent]) :
                     intent \in intents \cap DOMAIN self.intent_to_data_sources })

RECURSIVE BuildEnrichmentDetails(_, _)
BuildEnrichmentDetails(self, primary_intents) ==
    IF primary_intents = <<>> THEN <<>>
    ELSE LET n == Len(primary_intents)
             intent == primary_intents[n]
             before == BuildEnrichmentDetails(self, SubSeq(primary_intents, 1, n - 1))
         IN  IF intent \in DOMAIN self.enrichment_rules
             THEN DictSet(before, intent, self.enrichment_rules[intent])
             ELSE before

FailedToClassify(token_consumption) ==
    [ error |-> "Failed to classify intent",
      primary_intents |-> <<>>,
      enriched_intents |-> <<>>,
      data_sources |-> <<>>,
      enrichment_details |-> <<>>,
      token_consumption |-> token_consumption ]

\* classify, given what _call_bedrock came to: the dict it returns
ClassifyResult(self, confidence_mapper, user_query, include_confidence, bedrock) ==
    LET primary_intents == bedrock.intents
        enriched_intents == _get_enrichment_intents(self, primary_intents)
        enrichment_details == BuildEnrichmentDetails(self, primary_intents)
        data_sources == _get_data_sources(self, enriched_intents)
    IN  IF primary_intents = <<>>
        THEN FailedToClassify(bedrock.last_token_consumption)
        ELSE IF include_confidence
        THEN [ query |-> user_query,
               primary_intents |-> primary_intents,
               enriched_intents |-> sorted(enriched_intents),
               data_sources |-> data_sources,
               enrichment_details |-> enrichment_details,
               token_consumption |-> bedrock.last_token_consumption,
               confidence_validation |->
                   validate_classification_result(confidence_mapper, user_query,
                       primary_intents, sorted(enriched_intents)) ]
        ELSE [ query |-> user_query,
               primary_intents |-> primary_intents,
               enriched_intents |-> sorted(enriched_intents),
               data_sources |-> data_sources,
               enrichment_details |-> enrichment_details,
               token_consumption |-> bedrock.last_token_consumption ]

\* classify(user_query, include_confidence): one request to the service, then
\* the result, or the exception that escapes _call_bedrock.
classify(self, confidence_mapper, user_query, include_confidence, outcome, halfway) ==
    LET bedrock == _call_bedrock(self, user_query, outcome, halfway)
    IN  IF bedrock.raised # ""
        THEN [ raised |-> bedrock.raised ]
        ELSE [ raised |-> "",
               result |-> ClassifyResult(self, confidence_mapper, user_query,
                                         include_confidence, bedrock) ]

ClassifierInit ==
    /\ \E intent_categories \in Catalogs, enrichment_rules \in RuleSets :
           /\ init_args = [ intent_categories |-> intent_categories,
                            enrichment_rules |-> enrichment_rules,
                            kwargs |-> NoWeights ]
           /\ mapper = IntentConfidenceMapper(intent_categories, enrichment_rules, NoWeights)
           /\ classifier = IntentClassifier(intent_categories, enrichment_rules)
    /\ served = FALSE
    /\ pc = "idle"
    /\ call = NoCall
    /\ ret = NoResult
    /\ frames = [t \in Threads |-> IdleFrame]
    /\ bedrock_calls = <<>>
    /\ scorer = NoInstance

Classify(user_query, include_confidence, outcome, halfway) ==
    /\ pc = "idle"
    /\ call' = [op |-> "classify", user_query |-> user_query,
                include_confidence |-> include_confidence]
    /\ bedrock_calls' = Append(bedrock_calls, [user_query |-> user_query, outcome |-> outcome])
    /\ ret' = classify(classifier, mapper, user_query, include_confidence, outcome, halfway)
    /\ classifier' = [classifier EXCEPT !.last_token_consumption =
                         _call_bedrock(classifier, user_query, outcome,
                                       halfway).last_token_consumption]
    /\ pc' = "returned"
    /\ UNCHANGED <<mapper, init_args, served, frames, scorer>>

\* The caller takes the result, or catches the exception.
ClassifyReturn ==
    /\ pc = "returned"
    /\ pc' = "idle"
    /\ served' = TRUE
    /\ call' = NoCall
    /\ ret' = NoResult
    /\ bedrock_calls' = <<>>
    /\ UNCHANGED <<mapper, init_args, frames, classifier, scorer>>

ClassifierNext ==
    \/ \E user_query \in Queries, include_confidence \in BOOLEAN,
          outcome \in ServiceOutcomes,
          halfway \in [{"input", "output", "total"} -> BOOLEAN] :
           Classify(user_query, include_confidence, outcome, halfway)
    \/ ClassifyReturn

ClassifierSpec == ClassifierInit /\ [][ClassifierNext]_vars

(***************************************************************************)
(* calculate_enrichment_confidence on its own, on mappers constructed from  *)
(* one catalog and from every rule set that gives each intent name a list   *)
(* of up to MaxRuleLen distinct names: chains, cycles, self-references and  *)
(* names outside the catalog (RISK_PREDICTION is no intent of the catalog). *)
(***************************************************************************)
MaxRuleLen == 2

EnrichmentInit ==
    /\ \E enrichment_rules \in
            [IntentNames -> { l \in SeqsUpTo(IntentNames, MaxRuleLen) :
                                 Cardinality(Range(l)) = Len(l) }] :
           /\ init_args = [ intent_categories |-> SparseCatalog,
                            enrichment_rules |-> enrichment_rules,
                            kwargs |-> NoWeights ]
           /\ mapper = IntentConfidenceMapper(SparseCatalog, enrichment_rules, NoWeights)
    /\ served = FALSE
    /\ pc = "idle"
    /\ call = NoCall
    /\ ret = NoResult
    /\ frames = [t \in Threads |-> IdleFrame]
    /\ classifier = NoInstance
    /\ bedrock_calls = <<>>
    /\ scorer = NoInstance

EnrichmentNext ==
    \/ \E p \in IntentNames, e \in IntentNames : CalculateEnrichment(p, e)
    \/ Return

EnrichmentSpec == EnrichmentInit /\ [][EnrichmentNext]_vars

(***************************************************************************)
(* confidence.py: ConfidenceScorer.  A classification_result and the entries *)
(* of a classification history are dicts that are only read: functions from  *)
(* their keys.  Scores are exact rationals, like the mapper's.               *)
(***************************************************************************)
\* class ConfidenceLevel(Enum): member name -> value
ConfidenceLevel ==
    [ HIGH |-> "high", MEDIUM |-> "medium", LOW |-> "low", VERY_LOW |-> "very_low" ]

\* ConfidenceScorer.__init__
ConfidenceScorer(high_threshold, medium_threshold, low_threshold) ==
    [ high_threshold |-> high_threshold,
      medium_threshold |-> medium_threshold,
      low_threshold |-> low_threshold ]

\* _calculate_confidence: 0.8, adjusted by the number of words, a question
\* mark, a vague term and a service term, then clamped to [0, 1].  `in` on
\* strings is a substring test.
_calculate_confidence(intent, question) ==
    LET in(term, text) ==
            \E i \in 1..(Len(text) - Len(term) + 1) :
                SubSeq(text, i, i + Len(term) - 1) = term
        question_length == Len(split(question))
        vague_terms == { <<"s","o","m","e","t","h","i","n","g">>,
                         <<"a","n","y","t","h","i","n","g">>,
                         <<"w","h","a","t","e","v","e","r">>,
                         <<"s","t","u","f","f">>,
                         <<"t","h","i","n","g","s">>,
                         <<"m","a","y","b","e">> }
        service_terms == { <<"-","a","p","i">>, <<"s","e","r","v","i","c","e">>,
                           <<"a","p","p">> }
        by_length == IF question_length < 3 THEN Q(-15, 100)
                     ELSE IF question_length > 30 THEN Q(-1, 10)
                     ELSE RZero
        by_mark == IF in(<<"?">>, question) THEN Q(5, 100) ELSE RZero
        by_vague == IF \E term \in vague_terms : in(term, lower(question))
                    THEN Q(-2, 10) ELSE RZero
        by_service == IF \E term \in service_terms : in(term, lower(question))
                      THEN Q(5, 100) ELSE RZero
        score == RAdd(RAdd(RAdd(RAdd(Q(8, 10), by_length), by_mark), by_vague), by_service)
    IN  IF RLt(score, RZero) THEN RZero
        ELSE IF RGt(score, ROne) THEN ROne
        ELSE score

\* A faulty _get_confidence_level: it compares with the default thresholds.
LevelByDefaults(self, score) ==
    IF RGe(score, Q(85, 100)) THEN "HIGH"
    ELSE IF RGe(score, Q(7, 10)) THEN "MEDIUM"
    ELSE IF RGe(score, Q(5, 10)) THEN "LOW"
    ELSE "VERY_LOW"

\* _get_confidence_level: the member of ConfidenceLevel, by name
_get_confidence_level(self, score) ==
    IF RGe(score, self.high_threshold) THEN "HIGH"
    ELSE IF RGe(score, self.medium_threshold) THEN "MEDIUM"
    ELSE IF RGe(score, self.low_threshold) THEN "LOW"
    ELSE "VERY_LOW"

\* score: the dict it returns and, as classification_result, the caller's dict
\* as the call leaves it.  {**d, k: v, ...} is a new dict.
score(self, classification_result) ==
    LET intent == dict_get(classification_result, "intent", <<>>)
        question == dict_get(classification_result, "question", <<>>)
        confidence_score == _calculate_confidence(intent, question)
        confidence_level == _get_confidence_level(self, confidence_score)
        added == [ confidence |-> confidence_score,
                   confidence_level |-> ConfidenceLevel[confidence_level],
                   confidence_details |->
                       [ score |-> confidence_score,
                         level |-> ConfidenceLevel[confidence_level],
                         thresholds |-> [ high |-> self.high_threshold,
                                          medium |-> self.medium_threshold,
                                          low |-> self.low_threshold ] ] ]
    IN  [ result |-> [ k \in DOMAIN classification_result \cup DOMAIN added |->
                         IF k \in DOMAIN added THEN added[k]
                         ELSE classification_result[k] ],
          classification_result |-> classification_result ]

should_request_clarification(self, confidence_score) ==
    RLt(confidence_score, self.low_threshold)

get_fallback_intent(self, confidence_score, category) ==
    LET fallbacks == ("STATE" :> "CURRENT_HEALTH")
                     @@ ("TREND" :> "UNDERCURRENTS_TREND")
                     @@ ("PATTERN" :> "RECURRING_INCIDENT")
                     @@ ("CAUSE" :> "ROOT_CAUSE_SINGLE")
                     @@ ("IMPACT" :> "BLAST_RADIUS")
                     @@ ("ACTION" :> "MITIGATION_STEPS")
                     @@ ("PREDICT" :> "RISK_PREDICTION")
                     @@ ("OPTIMIZE" :> "PERFORMANCE_BOTTLENECK")
                     @@ ("EVIDENCE" :> "EVIDENCE_SUMMARY")
    IN  IF RGe(confidence_score, self.low_threshold) THEN None
        ELSE dict_get(fallbacks, category, None)

get_confidence_stats(self, classification_history) ==
    LET total == Len(classification_history)
        confidence(c) == dict_get(c, "confidence", RZero)
        scores == [i \in DOMAIN classification_history |->
                      confidence(classification_history[i])]
        count(level) == Cardinality({ i \in DOMAIN scores :
                            _get_confidence_level(self, scores[i]) = level })
        distribution == [ value \in Range(ConfidenceLevel) |->
                            LET level == CHOOSE l \in DOMAIN ConfidenceLevel :
                                             ConfidenceLevel[l] = value
                            IN  Q(count(level) * 100, total) ]
        clarifications == Cardinality({ i \in DOMAIN scores :
                              should_request_clarification(self, scores[i]) })
    IN  IF classification_history = <<>>
        THEN [ total_classifications |-> 0,
               average_confidence |-> RZero,
               distribution |-> <<>> ]
        ELSE [ total_classifications |-> total,
               average_confidence |-> RDiv(RSum(scores), Q(total, 1)),
               distribution |-> distribution,
               high_confidence_rate |-> distribution[ConfidenceLevel.HIGH],
               clarification_rate |-> Q(clarifications * 100, total) ]

\* adjust_thresholds(**kwargs): a threshold that is not passed is None and is
\* left as it is.
adjust_thresholds(self, kwargs) ==
    [ high_threshold |-> dict_get(kwargs, "high", self.high_threshold),
      medium_threshold |-> dict_get(kwargs, "medium", self.medium_threshold),
      low_threshold |-> dict_get(kwargs, "low", self.low_threshold) ]

(***************************************************************************)
(* A scorer is constructed with the default thresholds, then its methods    *)
(* are called one at a time, in any order.                                  *)
(***************************************************************************)
\* The classification results given to score: with a question of fewer than
\* 3 words, of 3 to 30 and of 31, with and without a question mark, a vague
\* term and a service term; with further keys, with keys that score sets, and
\* without a question.
ClassificationResults ==
    LET questions ==
            { <<>>, IsIt, WhyFailing,
              (* "Show me something" *)
              <<"S","h","o","w"," ","m","e"," ","s","o","m","e","t","h","i","n","g">>,
              (* "maybe stuff" *)
              <<"m","a","y","b","e"," ","s","t","u","f","f">>,
              (* "What happened yesterday" *)
              <<"W","h","a","t"," ","h","a","p","p","e","n","e","d"," ","y","e","s","t","e","r","d","a","y">>,
              (* "Is the DB down" *)
              <<"I","s"," ","t","h","e"," ","D","B"," ","d","o","w","n">>,
              (* "a a ... a": 31 words *)
              [i \in 1..61 |-> IF i % 2 = 1 THEN "a" ELSE " "] }
    IN  { [ intent |-> "ROOT_CAUSE_SINGLE", question |-> q ] : q \in questions }
        \cup { [ intent |-> "ROOT_CAUSE_SINGLE", question |-> q,
                 data_sources |-> <<"logs">> ] : q \in questions }
        \cup { [ intent |-> "ROOT_CAUSE_SINGLE", question |-> q,
                 confidence |-> Q(1, 2), confidence_level |-> "medium" ] :
                 q \in questions }
        \cup { [ intent |-> "ROOT_CAUSE_SINGLE" ] }

ThresholdValues ==
    { Q(5, 10), Q(7, 10), Q(85, 100), Q(9, 10) }

MaxHistory == 2

\* Classification histories: entries with a confidence and one without.
Histories ==
    SeqsUpTo({ [ confidence |-> s ] : s \in { Q(45, 100), Q(6, 10), Q(87, 100) } }
             \cup { [ intent |-> "ROOT_CAUSE_SINGLE" ] }, MaxHistory)

ScorerInit ==
    /\ scorer = ConfidenceScorer(Q(85, 100), Q(7, 10), Q(5, 10))
    /\ mapper = NoInstance
    /\ init_args = NoInstance
    /\ served = FALSE
    /\ pc = "idle"
    /\ call = NoCall
    /\ ret = NoResult
    /\ frames = [t \in Threads |-> IdleFrame]
    /\ classifier = NoInstance
    /\ bedrock_calls = <<>>

Score(classification_result) ==
    /\ pc = "idle"
    /\ call' = [op |-> "score", classification_result |-> classification_result]
    /\ ret' = score(scorer, classification_result)
    /\ pc' = "returned"
    /\ UNCHANGED <<mapper, init_args, served, frames, classifier, bedrock_calls, scorer>>

AdjustThresholds(kwargs) ==
    /\ pc = "idle"
    /\ call' = [op |-> "adjust_thresholds", kwargs |-> kwargs]
    /\ scorer' = adjust_thresholds(scorer, kwargs)
    /\ ret' = [value |-> None]
    /\ pc' = "returned"
    /\ UNCHANGED <<mapper, init_args, served, frames, classifier, bedrock_calls>>

ShouldRequestClarification(confidence_score) ==
    /\ pc = "idle"
    /\ call' = [op |-> "should_request_clarification",
                confidence_score |-> confidence_score]
    /\ ret' = [clarification |-> should_request_clarification(scorer, confidence_score)]
    /\ pc' = "returned"
    /\ UNCHANGED <<mapper, init_args, served, frames, classifier, bedrock_calls, scorer>>

GetFallbackIntent(confidence_score, category) ==
    /\ pc = "idle"
    /\ call' = [op |-> "get_fallback_intent", confidence_score |-> confidence_score,
                category |-> category]
    /\ ret' = [intent |-> get_fallback_intent(scorer, confidence_score, category)]
    /\ pc' = "returned"
    /\ UNCHANGED <<mapper, init_args, served, frames, classifier, bedrock_calls, scorer>>

GetConfidenceStats(classification_history) ==
    /\ pc = "idle"
    /\ call' = [op |-> "get_confidence_stats",
                classification_history |-> classification_history]
    /\ ret' = get_confidence_stats(scorer, classification_history)
    /\ pc' = "returned"
    /\ UNCHANGED <<mapper, init_args, served, frames, classifier, bedrock_calls, scorer>>

ScorerNext ==
    \/ \E classification_result \in ClassificationResults : Score(classification_result)
    \/ \E keys \in SUBSET {"high", "medium", "low"} :
           \E kwargs \in [keys -> ThresholdValues] : AdjustThresholds(kwargs)
    \/ \E confidence_score \in LevelScores :
           ShouldRequestClarification(confidence_score)
    \/ \E confidence_score \in LevelScores,
          category \in {"CAUSE", "PREDICT", "cause", "BILLING"} :
           GetFallbackIntent(confidence_score, category)
    \/ \E classification_history \in Histories :
           GetConfidenceStats(classification_history)
    \/ Return

ScorerSpec == ScorerInit /\ [][ScorerNext]_vars

(***************************************************************************)
(* Properties.  Each holds in every reachable state unless said otherwise.  *)
(***************************************************************************)
Returned(op) ==
    pc = "returned" /\ call.op = op

DirectOf(self, primary_intent) ==
    Range(dict_get(self.enrichment_rules, primary_intent, <<>>))

TwoHopOf(self, primary_intent) ==
    UNION { DirectOf(self, d) : d \in DirectOf(self, primary_intent) }

\* C1: for an intent name outside the mapper's valid-intent set,
\* calculate_primary_intent_confidence returns exactly 0.0 with is_valid FALSE and
\* both component scores 0, and calculate_enrichment_confidence returns exactly
\* 0.0 with both validity flags FALSE and depth 0, whatever the rules list.
ValidityGate ==
    /\ ( Returned("calculate_primary_intent_confidence")
         /\ call.intent \notin mapper.all_valid_intents )
       => /\ ret.score = RZero
          /\ ret.details.is_valid = FALSE
          /\ ret.details.keyword_match_score = RZero
          /\ ret.details.example_similarity_score = RZero
    /\ ( Returned("calculate_enrichment_confidence")
         /\ call.enrichment_intent \notin mapper.all_valid_intents )
       => /\ ret.score = RZero
          /\ ret.details.is_valid_intent = FALSE
          /\ ret.details.is_valid_enrichment = FALSE
          /\ ret.details.enrichment_depth = 0

\* An unknown name that a rule lists directly under the primary intent was scored.
ValidityGateWitness ==
    /\ Returned("calculate_enrichment_confidence")
    /\ call.enrichment_intent \notin mapper.all_valid_intents
    /\ call.enrichment_intent \in DirectOf(mapper, call.primary_intent)
    /\ ret.score = RZero

\* C2: for a valid candidate e, calculate_enrichment_confidence(p, e) is exactly
\* 1.0 when e is listed under p, otherwise exactly 0.8 when e is listed under a
\* direct enrichment of p, otherwise exactly 0.0; no other value is returned.
DepthScores ==
    Returned("calculate_enrichment_confidence")
    => /\ ret.score \in { RZero, Q(8, 10), ROne }
       /\ call.enrichment_intent \in mapper.all_valid_intents
          => ret.score =
                IF call.enrichment_intent \in DirectOf(mapper, call.primary_intent)
                    THEN ROne
                ELSE IF call.enrichment_intent \in TwoHopOf(mapper, call.primary_intent)
                    THEN Q(8, 10)
                ELSE RZero

\* A candidate that is both a direct enrichment and two hops away scored 1.0.
DepthScoresWitness ==
    /\ Returned("calculate_enrichment_confidence")
    /\ call.enrichment_intent \in mapper.all_valid_intents
    /\ call.enrichment_intent \in DirectOf(mapper, call.primary_intent)
    /\ call.enrichment_intent \in TwoHopOf(mapper, call.primary_intent)
    /\ ret.score = ROne

\* C3 as stated: every score calculate_primary_intent_confidence returns lies in
\* [0,1], whatever weights were configured.  The code does not clamp: this fails.
PrimaryScoreInUnitInterval ==
    Returned("calculate_primary_intent_confidence")
    => RLe(RZero, ret.score) /\ RLe(ret.score, ROne)

ConfiguredWeight(name, default) ==
    IF name \in DOMAIN init_args.kwargs THEN init_args.kwargs[name] ELSE default

MaxSimilarity(query, examples) ==
    LET sims == { TextSimilarity(query, examples[i]) : i \in DOMAIN examples }
    IN  IF sims = {} THEN RZero
        ELSE CHOOSE s \in sims : \A t \in sims : RLe(t, s)

\* C4: for a valid intent the score is keyword_weight * keyword_match_score +
\* similarity_weight * example_similarity_score, example_similarity_score being
\* the greatest text similarity of the query to an example of the intent (0 with
\* no examples), and the weights 0.4 and 0.6 unless configured.
WeightedSum ==
    ( Returned("calculate_primary_intent_confidence")
      /\ call.intent \in mapper.all_valid_intents )
    => /\ ret.details.example_similarity_score =
              MaxSimilarity(call.query, dict_get(mapper.intent_examples, call.intent, <<>>))
       /\ ret.score =
              RAdd(RMul(ConfiguredWeight("keyword_weight", Q(4, 10)),
                        ret.details.keyword_match_score),
                   RMul(ConfiguredWeight("similarity_weight", Q(6, 10)),
                        ret.details.example_similarity_score))

\* With no weight configured, an intent whose first example, not its last, is
\* the closest to the query was scored 0.4 * 0.5 + 0.6 * 1.0.
WeightedSumWitness ==
    /\ Returned("calculate_primary_intent_confidence")
    /\ init_args.kwargs = NoWeights
    /\ Len(dict_get(mapper.intent_examples, call.intent, <<>>)) = 2
    /\ ret.details.keyword_match_score = Q(1, 2)
    /\ ret.details.example_similarity_score = ROne
    /\ ret.score = Q(8, 10)

\* The score the result records for each element of primary_intents, in order.
RecordedPrimaryScores ==
    [i \in DOMAIN call.primary_intents |->
        DictLookup(ret.primary_intents, call.primary_intents[i]).confidence_score]

\* C5: primary_confidence is the arithmetic mean of the scores of the elements
\* of primary_intents, 0.0 when the list is empty, and overall_confidence is
\* 0.8 * primary_confidence + 0.2 * enrichment_confidence.
PrimaryMeanAndOverall ==
    Returned("validate_classification_result")
    => /\ ret.primary_confidence =
              IF call.primary_intents = <<>> THEN RZero
              ELSE RDiv(RSum(RecordedPrimaryScores), Q(Len(call.primary_intents), 1))
       /\ \A i \in DOMAIN call.primary_intents :
              RecordedPrimaryScores[i] =
                  calculate_primary_intent_confidence(mapper, call.query,
                                                      call.primary_intents[i]).score
       /\ ret.overall_confidence =
              RAdd(RMul(Q(8, 10), ret.primary_confidence),
                   RMul(Q(2, 10), ret.enrichment_confidence))
       /\ call.primary_intents = <<>>
          => ret.overall_confidence = RMul(Q(2, 10), ret.enrichment_confidence)

\* A call with no primary intents and some enriched intents completed.
PrimaryMeanAndOverallWitness ==
    /\ Returned("validate_classification_result")
    /\ call.primary_intents = <<>>
    /\ call.enriched_intents # <<>>
    /\ ret.primary_confidence = RZero
    /\ ret.overall_confidence = Q(2, 10)

\* The enrichment candidates of the call, in order, repetitions kept.
Candidates ==
    LET keep(e) == \A i \in DOMAIN call.primary_intents : call.primary_intents[i] # e
    IN  SelectSeq(call.enriched_intents, keep)

\* The score of every (candidate, primary) pair of the call, candidate by
\* candidate.
PairScores ==
    LET m == Len(call.primary_intents)
    IN  [k \in 1..(Len(Candidates) * m) |->
            calculate_enrichment_confidence(mapper,
                call.primary_intents[((k - 1) % m) + 1],
                Candidates[((k - 1) \div m) + 1]).score]

CollectedScores ==
    LET positive(s) == RGt(s, RZero)
    IN  SelectSeq(PairScores, positive)

\* C6: enrichment_confidence is the arithmetic mean of the source scores
\* collected, one per (candidate, primary) pair whose score is > 0, and exactly
\* 1.0 when none was collected, even if there are candidates.
EnrichmentMean ==
    Returned("validate_classification_result")
    => ret.enrichment_confidence =
           IF CollectedScores = <<>> THEN ROne
           ELSE RDiv(RSum(CollectedScores), Q(Len(CollectedScores), 1))

\* Two candidates were given, none of them linked to a primary intent, and
\* enrichment_confidence is 1.0.
EnrichmentMeanWitness ==
    /\ Returned("validate_classification_result")
    /\ call.primary_intents # <<>>
    /\ Len(Candidates) = 2
    /\ CollectedScores = <<>>
    /\ ret.enrichment_confidence = ROne

\* Every candidate is a catalog intent that the rule of at least one primary
\* intent lists directly, and there is a primary intent.
AllCandidatesDirect ==
    /\ call.primary_intents # <<>>
    /\ \A i \in DOMAIN Candidates :
          /\ Candidates[i] \in mapper.all_valid_intents
          /\ \E j \in DOMAIN call.primary_intents :
                 Candidates[i] \in DirectOf(mapper, call.primary_intents[j])

AllMaxConfidenceOne ==
    \A i \in DOMAIN Candidates :
        DictLookup(ret.enrichments, Candidates[i]).max_confidence = ROne

\* C7 as stated: when every candidate is a direct enrichment of at least one
\* primary intent, every max_confidence is 1.0 and enrichment_confidence is 1.0.
\* It fails: a primary intent that reaches a candidate in two hops adds 0.8.
DirectCandidatesFullConfidence ==
    ( Returned("validate_classification_result") /\ AllCandidatesDirect )
    => AllMaxConfidenceOne /\ ret.enrichment_confidence = ROne

\* Some primary intent reaches some candidate in two hops and not directly.
SomeTwoHopOnly ==
    \E i \in DOMAIN Candidates, j \in DOMAIN call.primary_intents :
        /\ Candidates[i] \notin DirectOf(mapper, call.primary_intents[j])
        /\ Candidates[i] \in TwoHopOf(mapper, call.primary_intents[j])

\* C7, amended: when every candidate is a direct enrichment of at least one
\* primary intent, every max_confidence is 1.0; enrichment_confidence is 1.0
\* unless some primary intent reaches some candidate in two hops only, and then
\* it is at least 0.8 and below 1.0.
DirectCandidatesMaxConfidence ==
    ( Returned("validate_classification_result") /\ AllCandidatesDirect )
    => /\ AllMaxConfidenceOne
       /\ IF SomeTwoHopOnly
          THEN RGe(ret.enrichment_confidence, Q(8, 10)) /\ RLt(ret.enrichment_confidence, ROne)
          ELSE ret.enrichment_confidence = ROne

\* Two primary intents and one candidate, direct under one of them and two hops
\* from the other: max_confidence is 1.0 and enrichment_confidence 0.9.
DirectCandidatesMaxConfidenceWitness ==
    /\ Returned("validate_classification_result")
    /\ AllCandidatesDirect
    /\ Len(Candidates) = 1
    /\ SomeTwoHopOnly
    /\ AllMaxConfidenceOne
    /\ ret.enrichment_confidence = Q(9, 10)

Linked(candidate) ==
    \E j \in DOMAIN call.primary_intents :
        RGt(calculate_enrichment_confidence(mapper, call.primary_intents[j], candidate).score,
            RZero)

UnlinkedRecommendation(candidate) ==
    <<"Enrichment has no valid link to primary intents", candidate>>

\* C8: a candidate that scores 0 against every primary intent is recorded with
\* no sources and max_confidence 0.0, and a recommendation names it; a candidate
\* with a source has no such recommendation.
UnlinkedCandidates ==
    Returned("validate_classification_result")
    => \A i \in DOMAIN Candidates :
          IF Linked(Candidates[i])
          THEN /\ DictLookup(ret.enrichments, Candidates[i]).sources # <<>>
               /\ UnlinkedRecommendation(Candidates[i]) \notin Range(ret.recommendations)
          ELSE /\ DictLookup(ret.enrichments, Candidates[i]).sources = <<>>
               /\ DictLookup(ret.enrichments, Candidates[i]).max_confidence = RZero
               /\ UnlinkedRecommendation(Candidates[i]) \in Range(ret.recommendations)

\* A linked candidate and an unlinked one, which is not a catalog intent, were
\* given in one call.
UnlinkedCandidatesWitness ==
    /\ Returned("validate_classification_result")
    /\ Len(Candidates) = 2
    /\ Linked(Candidates[1])
    /\ ~Linked(Candidates[2])
    /\ Candidates[2] \notin mapper.all_valid_intents
    /\ UnlinkedRecommendation(Candidates[2]) \in Range(ret.recommendations)

OverallTexts ==
    { <<"Overall confidence is HIGH. Classification looks good.">>,
      <<"Overall confidence is MEDIUM. Review recommended.">>,
      <<"Overall confidence is LOW. Manual review required.">> }

LevelRecommendation(confidence) ==
    IF RGe(confidence, Q(7, 10))
        THEN <<"Overall confidence is HIGH. Classification looks good.">>
    ELSE IF RGe(confidence, Q(4, 10))
        THEN <<"Overall confidence is MEDIUM. Review recommended.">>
    ELSE <<"Overall confidence is LOW. Manual review required.">>

\* The recommendations for the primary intents, then for the candidates, in the
\* order of the lists.
GeneratedRecommendations ==
    LET low(r) == RLt(r[3], Q(4, 10))
        unlinked(r) == DictLookup(ret.enrichments, r[2]).sources = <<>>
    IN  SelectSeq([i \in DOMAIN call.primary_intents |->
                      <<"Low confidence for primary intent", call.primary_intents[i],
                        RecordedPrimaryScores[i]>>], low)
        \o SelectSeq([i \in DOMAIN Candidates |-> UnlinkedRecommendation(Candidates[i])],
                     unlinked)

\* C9: the recommendations begin with the overall recommendation, the only one
\* of its kind, whose level is HIGH, MEDIUM or LOW by primary_confidence (>= 0.7,
\* >= 0.4, else); the other recommendations follow in the order generated.
OverallRecommendationFirst ==
    Returned("validate_classification_result")
    => /\ ret.recommendations # <<>>
       /\ ret.recommendations[1] = LevelRecommendation(ret.primary_confidence)
       /\ Cardinality({ i \in DOMAIN ret.recommendations :
                            ret.recommendations[i] \in OverallTexts }) = 1
       /\ Tail(ret.recommendations) = GeneratedRecommendations

\* primary_confidence is below 0.4 and overall_confidence is not: the overall
\* recommendation is LOW, and the recommendations for the intents follow it.
OverallRecommendationFirstWitness ==
    /\ Returned("validate_classification_result")
    /\ RLt(ret.primary_confidence, Q(4, 10))
    /\ RGe(ret.overall_confidence, Q(4, 10))
    /\ ret.recommendations[1] = <<"Overall confidence is LOW. Manual review required.">>
    /\ Len(ret.recommendations) > 1

\* What the call c returns on the mapper self.
Eval(self, c) ==
    CASE c.op = "_extract_keywords" -> [keywords |-> _extract_keywords(c.text)]
      [] c.op = "_calculate_text_similarity" ->
             [similarity |-> _calculate_text_similarity(c.text1, c.text2)]
      [] c.op = "calculate_primary_intent_confidence" ->
             calculate_primary_intent_confidence(self, c.query, c.intent)
      [] c.op = "calculate_enrichment_confidence" ->
             calculate_enrichment_confidence(self, c.primary_intent, c.enrichment_intent)
      [] c.op = "validate_classification_result" ->
             validate_classification_result(self, c.query, c.primary_intents,
                                            c.enriched_intents)
      [] c.op = "get_confidence_level" -> [level |-> get_confidence_level(c.score)]

\* The mapper __init__ builds from each choice of arguments, computed once.
ConstructedMappers ==
    { <<[ intent_categories |-> c, enrichment_rules |-> r, kwargs |-> k ],
        IntentConfidenceMapper(c, r, k)>> :
          <<c, r, k>> \in Catalogs \X RuleSets \X WeightArgs }

Constructed ==
    (CHOOSE m \in ConstructedMappers : m[1] = init_args)[2]

\* C10: no call modifies the mapper, and whatever calls came before, a call
\* returns what the same call returns on the mapper as constructed; so two calls
\* with the same arguments return the same.
Deterministic ==
    /\ mapper = Constructed
    /\ pc = "returned" => ret = Eval(Constructed, call)

\* A call of validate_classification_result returned on a mapper that had served
\* other calls before.
DeterministicWitness ==
    /\ served
    /\ Returned("validate_classification_result")
    /\ call.primary_intents # <<>>
    /\ ret = Eval(Constructed, call)

\* The keywords of the examples of an intent record.
ExampleKeywords(intent_data) ==
    LET examples == dict_get(intent_data, "examples", <<>>)
    IN  UNION { Range(_extract_keywords(examples[i])) : i \in DOMAIN examples }

\* The categories of the catalog that have no 'intents' and the intent records
\* that lack a part, as the mapper was constructed from them.
MissingPartsAreEmpty ==
    LET categories == init_args.intent_categories
        withIntents == { c \in DOMAIN categories : "intents" \in DOMAIN categories[c][2] }
        records == UNION { Range(categories[c][2]["intents"]) : c \in withIntents }
    IN  /\ mapper.all_valid_intents = { r[1] : r \in records }
        /\ DOMAIN mapper.intent_keywords = mapper.all_valid_intents
        /\ DOMAIN mapper.intent_examples = mapper.all_valid_intents
        /\ \A r \in records :
              /\ "examples" \notin DOMAIN r[2] => mapper.intent_examples[r[1]] = <<>>
              /\ "description" \notin DOMAIN r[2]
                 => mapper.intent_keywords[r[1]] = ExampleKeywords(r[2])

\* C16: the mapper is constructed from a category without 'intents' and from
\* intent records without 'description' or 'examples' with the missing part
\* taken as empty; and scoring a valid intent returns a score and its details,
\* with keyword_match_score 0 when the intent's or the query's keyword set is
\* empty and example_similarity_score 0 when the intent has no examples.
MissingDataDegrades ==
    /\ MissingPartsAreEmpty
    /\ ( Returned("calculate_primary_intent_confidence")
         /\ call.intent \in mapper.all_valid_intents )
       => /\ DOMAIN ret = {"score", "details"}
          /\ ret.details.is_valid = TRUE
          /\ ( mapper.intent_keywords[call.intent] = {}
               \/ Keywords(call.query) = <<>> )
             => ret.details.keyword_match_score = RZero
          /\ mapper.intent_examples[call.intent] = <<>>
             => ret.details.example_similarity_score = RZero

\* A query with keywords was scored against a valid intent that has no keywords
\* and no examples, on a mapper whose catalog has a category without intents
\* and an intent without description: the score is 0.
MissingDataDegradesWitness ==
    /\ Returned("calculate_primary_intent_confidence")
    /\ call.intent \in mapper.all_valid_intents
    /\ mapper.intent_keywords[call.intent] = {}
    /\ mapper.intent_examples[call.intent] = <<>>
    /\ Keywords(call.query) # <<>>
    /\ \E c \in DOMAIN init_args.intent_categories :
          "intents" \notin DOMAIN init_args.intent_categories[c][2]
    /\ \E n \in mapper.all_valid_intents : mapper.intent_keywords[n] # {}
    /\ ret.score = RZero
    /\ ret.details.is_valid = TRUE

\* C20: for a valid intent whose keyword set I and the query's keyword set Q are
\* both non-empty, the details report precision |Q n I| / |Q| and recall
\* |Q n I| / |I|, and keyword_match_score is their F1, that is
\* 2 |Q n I| / (|Q| + |I|): 0 when Q and I are disjoint, within [0,1], and 1 only
\* when Q = I.  When Q or I is empty keyword_match_score is 0 and the details
\* hold neither keyword_precision nor keyword_recall.
KeywordF1 ==
    ( Returned("calculate_primary_intent_confidence")
      /\ call.intent \in mapper.all_valid_intents )
    => LET QK == Range(Keywords(call.query))
           IK == mapper.intent_keywords[call.intent]
           common == Cardinality(QK \cap IK)
           kms == ret.details.keyword_match_score
       IN  IF QK # {} /\ IK # {}
           THEN /\ {"keyword_precision", "keyword_recall"} \subseteq DOMAIN ret.details
                /\ ret.details.keyword_precision = Q(common, Cardinality(QK))
                /\ ret.details.keyword_recall = Q(common, Cardinality(IK))
                /\ RMul(kms, RAdd(ret.details.keyword_precision, ret.details.keyword_recall))
                      = RMul(Q(2, 1), RMul(ret.details.keyword_precision,
                                           ret.details.keyword_recall))
                /\ kms = Q(2 * common, Cardinality(QK) + Cardinality(IK))
                /\ QK \cap IK = {} => kms = RZero
                /\ RLe(RZero, kms) /\ RLe(kms, ROne)
                /\ kms = ROne => QK = IK
           ELSE /\ kms = RZero
                /\ {"keyword_precision", "keyword_recall"} \cap DOMAIN ret.details = {}

\* Some, not all, of the query's keywords were among the intent's, and the
\* intent had more: precision and recall differ, and the score lies between.
KeywordF1Witness ==
    /\ Returned("calculate_primary_intent_confidence")
    /\ call.intent \in mapper.all_valid_intents
    /\ "keyword_precision" \in DOMAIN ret.details
    /\ ret.details.keyword_precision # ret.details.keyword_recall
    /\ RLt(RZero, ret.details.keyword_match_score)
    /\ RLt(ret.details.keyword_match_score, ROne)
    /\ RLt(ret.details.keyword_precision, ROne)

\* The query of the call equals, both lowercased and trimmed, an example of the
\* intent of the call.
QueryIsExample ==
    \E example \in Range(dict_get(mapper.intent_examples, call.intent, <<>>)) :
        strip(lower(call.query)) = strip(lower(example))

\* C12 as stated: for a query that equals an example of the intent,
\* example_similarity_score is 1.0 and, with the default weights, the score is at
\* least 0.7.  A query without keywords scores 0.6: this fails.
ExampleQueryScoresHigh ==
    ( Returned("calculate_primary_intent_confidence")
      /\ call.intent \in mapper.all_valid_intents
      /\ QueryIsExample )
    => /\ ret.details.example_similarity_score = ROne
       /\ init_args.kwargs = NoWeights => RGe(ret.score, Q(7, 10))

\* C12: for a query that equals, lowercased and trimmed, an example of a valid
\* intent, example_similarity_score is 1.0; with the default weights the score
\* is 0.6 + 0.4 * keyword_match_score: at least 0.6, and at least 0.7 exactly
\* when keyword_match_score is at least 0.25.
ExampleQueryScore ==
    ( Returned("calculate_primary_intent_confidence")
      /\ call.intent \in mapper.all_valid_intents
      /\ QueryIsExample )
    => /\ ret.details.example_similarity_score = ROne
       /\ init_args.kwargs = NoWeights
          => /\ ret.score = RAdd(Q(6, 10), RMul(Q(4, 10), ret.details.keyword_match_score))
             /\ RGe(ret.score, Q(6, 10))
             /\ RGe(ret.score, Q(7, 10))
                <=> RGe(ret.details.keyword_match_score, Q(1, 4))

\* With the default weights, a query without keywords that equals an example
\* only once lowercased and trimmed scored 0.6, in the MEDIUM bucket.
ExampleQueryScoreWitness ==
    /\ Returned("calculate_primary_intent_confidence")
    /\ call.intent \in mapper.all_valid_intents
    /\ QueryIsExample
    /\ call.query \notin Range(mapper.intent_examples[call.intent])
    /\ init_args.kwargs = NoWeights
    /\ ret.details.example_similarity_score = ROne
    /\ ret.score = Q(6, 10)
    /\ ret.details.reasoning[Len(ret.details.reasoning)] = BucketReasoning(Q(6, 10))

\* The distinct elements of a list, in the order of their first occurrence.
RECURSIVE FirstOccurrences(_)
FirstOccurrences(list) ==
    IF list = <<>> THEN <<>>
    ELSE LET front == FirstOccurrences(SubSeq(list, 1, Len(list) - 1))
             last == list[Len(list)]
         IN  IF last \in Range(front) THEN front ELSE Append(front, last)

\* The low-confidence recommendations of the result, in order.
LowRecommendations ==
    LET low(r) == r[1] = "Low confidence for primary intent"
    IN  SelectSeq(ret.recommendations, low)

\* The low-confidence recommendation of each occurrence in primary_intents whose
\* score is below 0.4, in order.
LowOccurrences ==
    LET scored == [i \in DOMAIN call.primary_intents |->
                      <<"Low confidence for primary intent", call.primary_intents[i],
                        calculate_primary_intent_confidence(mapper, call.query,
                            call.primary_intents[i]).score>>]
        low(r) == RLt(r[3], Q(4, 10))
    IN  SelectSeq(scored, low)

\* The entry recorded under a name is the score and details of that intent.
RecordedEntriesAreScores ==
    \A i \in DOMAIN ret.primary_intents :
        LET r == calculate_primary_intent_confidence(mapper, call.query,
                                                     ret.primary_intents[i][1])
        IN  ret.primary_intents[i][2] = [confidence_score |-> r.score, details |-> r.details]

\* C17 as stated: one entry is recorded per element of primary_intents, in input
\* order, so that there are as many entries as elements, and an occurrence gets
\* a low-confidence recommendation exactly when its score is < 0.4.  The entries
\* are keyed by name, a repeated name has one: this fails.
OneEntryPerOccurrence ==
    Returned("validate_classification_result")
    => /\ Len(ret.primary_intents) = Len(call.primary_intents)
       /\ [i \in DOMAIN ret.primary_intents |-> ret.primary_intents[i][1]]
             = call.primary_intents
       /\ RecordedEntriesAreScores
       /\ LowRecommendations = LowOccurrences

\* C17: validate_classification_result scores each element of primary_intents in
\* input order, each occurrence of a repeated name too: every occurrence counts
\* in primary_confidence and gets a low-confidence recommendation exactly when
\* its score is < 0.4.  The score-and-details entries are keyed by name: one per
\* distinct name, in the order of first occurrence.
OneEntryPerName ==
    Returned("validate_classification_result")
    => /\ [i \in DOMAIN ret.primary_intents |-> ret.primary_intents[i][1]]
             = FirstOccurrences(call.primary_intents)
       /\ RecordedEntriesAreScores
       /\ LowRecommendations = LowOccurrences
       /\ call.primary_intents # <<>>
          => RMul(ret.primary_confidence, Q(Len(call.primary_intents), 1))
                = RSum([i \in DOMAIN call.primary_intents |->
                           calculate_primary_intent_confidence(mapper, call.query,
                               call.primary_intents[i]).score])

\* A name was given twice as primary intent, with a score below 0.4: it has one
\* entry and two low-confidence recommendations.
OneEntryPerNameWitness ==
    /\ Returned("validate_classification_result")
    /\ Len(call.primary_intents) = 2
    /\ call.primary_intents[1] = call.primary_intents[2]
    /\ Len(ret.primary_intents) = 1
    /\ Len(LowRecommendations) = 2
    /\ RGt(ret.primary_confidence, RZero)

\* C18 as stated: the enrichment candidates are the set difference of
\* enriched_intents and primary_intents, each distinct name evaluated once, so
\* that the recorded enrichments, enrichment_confidence, overall_confidence and
\* the recommendations are those of the call made with enriched_intents without
\* its repetitions.  The code evaluates every occurrence: this fails.
CandidatesAreSetDifference ==
    Returned("validate_classification_result")
    => LET once == validate_classification_result(mapper, call.query,
                       call.primary_intents, FirstOccurrences(call.enriched_intents))
       IN  /\ ret.enrichments = once.enrichments
           /\ ret.enrichment_confidence = once.enrichment_confidence
           /\ ret.overall_confidence = once.overall_confidence
           /\ ret.recommendations = once.recommendations

\* The sources the result should hold for a candidate: for each element of
\* primary_intents, in order, whose enrichment score for the candidate is > 0,
\* the primary intent, the score and the details.
ExpectedSources(candidate) ==
    LET scored == [i \in DOMAIN call.primary_intents |->
                      LET r == calculate_enrichment_confidence(mapper,
                                   call.primary_intents[i], candidate)
                      IN  [primary |-> call.primary_intents[i],
                           score |-> r.score, details |-> r.details]]
        positive(source) == RGt(source.score, RZero)
    IN  SelectSeq(scored, positive)

\* C19: the sources recorded for each enrichment candidate are exactly the
\* primary intents whose enrichment score for it is > 0, in the order of
\* primary_intents, each with that score; when there are any, max_confidence is
\* the greatest of their scores: 1.0 if a primary intent lists the candidate
\* directly, else 0.8.
SourcesPerCandidate ==
    Returned("validate_classification_result")
    => /\ DictKeys(ret.enrichments) = Range(Candidates)
       /\ \A i \in DOMAIN ret.enrichments :
             LET candidate == ret.enrichments[i][1]
                 entry == ret.enrichments[i][2]
                 scores == { entry.sources[k].score : k \in DOMAIN entry.sources }
             IN  /\ entry.sources = ExpectedSources(candidate)
                 /\ entry.sources # <<>>
                    => /\ entry.max_confidence \in scores
                       /\ \A s \in scores : RLe(s, entry.max_confidence)
                       /\ entry.max_confidence =
                             IF \E k \in DOMAIN call.primary_intents :
                                   candidate \in DirectOf(mapper, call.primary_intents[k])
                             THEN ROne ELSE Q(8, 10)

\* A candidate has two sources, the first through two hops with 0.8 and the
\* second direct with 1.0: max_confidence is 1.0.
SourcesPerCandidateWitness ==
    /\ Returned("validate_classification_result")
    /\ \E i \in DOMAIN ret.enrichments :
          LET entry == ret.enrichments[i][2]
          IN  /\ Len(entry.sources) = 2
              /\ entry.sources[1].score = Q(8, 10)
              /\ entry.sources[2].score = ROne
              /\ entry.sources[1].primary # entry.sources[2].primary
              /\ entry.max_confidence = ROne

\* The keyword set K of a text, lowercased and trimmed.
NormalisedKeywords(text) ==
    Range(_extract_keywords(strip(lower(text))))

\* C14: _calculate_text_similarity(a, b) lies in [0,1]; with K(a) and K(b) the
\* keyword sets of the lowercased, trimmed texts, it is 0.7 * sequence ratio +
\* 0.3 * |K(a) n K(b)| / max(|K(a)|, |K(b)|) when both are non-empty, and the
\* sequence ratio of the lowercased, trimmed texts alone when either is empty.
SimilarityBlend ==
    Returned("_calculate_text_similarity")
    => LET Ka == NormalisedKeywords(call.text1)
           Kb == NormalisedKeywords(call.text2)
           ratio == SequenceRatio(strip(lower(call.text1)), strip(lower(call.text2)))
           larger == IF Cardinality(Ka) >= Cardinality(Kb)
                     THEN Cardinality(Ka) ELSE Cardinality(Kb)
       IN  /\ RLe(RZero, ret.similarity) /\ RLe(ret.similarity, ROne)
           /\ RLe(RZero, ratio) /\ RLe(ratio, ROne)
           /\ ret.similarity =
                 IF Ka # {} /\ Kb # {}
                 THEN RAdd(RMul(Q(7, 10), ratio),
                           RMul(Q(3, 10), Q(Cardinality(Ka \cap Kb), larger)))
                 ELSE ratio

\* Two texts with keyword sets of different sizes that share keywords, and
\* differ in case, were compared: the similarity is strictly between the
\* sequence ratio and 1.
SimilarityBlendWitness ==
    /\ Returned("_calculate_text_similarity")
    /\ Cardinality(NormalisedKeywords(call.text1)) < Cardinality(NormalisedKeywords(call.text2))
    /\ NormalisedKeywords(call.text1) \cap NormalisedKeywords(call.text2) # {}
    /\ RLt(SequenceRatio(strip(lower(call.text1)), strip(lower(call.text2))),
           ret.similarity)
    /\ RLt(ret.similarity, ROne)
    /\ lower(call.text1) # call.text1

\* The word without its last n letters, and whether it ends with a suffix.
Cut(word, n) ==
    SubSeq(word, 1, Len(word) - n)

Ends(word, suffix) ==
    /\ Len(word) >= Len(suffix)
    /\ SubSeq(word, Len(word) - Len(suffix) + 1, Len(word)) = suffix

\* One letter of a doubled non-vowel ending is dropped.
Undoubled(word) ==
    IF /\ Len(word) >= 2
       /\ word[Len(word)] = word[Len(word) - 1]
       /\ word[Len(word)] \notin {"a", "e", "i", "o", "u"}
    THEN Cut(word, 1) ELSE word

\* The rules (a) to (d), each applied to the word the rules before it left.
RuleA(word) ==
    IF Ends(word, <<"i","n","g">>) /\ Len(word) > 5 THEN Undoubled(Cut(word, 3)) ELSE word

RuleB(word) ==
    IF Ends(word, <<"e","d">>) /\ Len(word) > 4 THEN Undoubled(Cut(word, 2)) ELSE word

RuleC(word) ==
    CASE Ends(word, <<"i","e","s">>) /\ Len(word) > 4 -> Append(Cut(word, 3), "y")
      [] ~(Ends(word, <<"i","e","s">>) /\ Len(word) > 4)
         /\ Ends(word, <<"e","s">>) /\ Len(word) > 3 -> Cut(word, 2)
      [] ~(Ends(word, <<"e","s">>) /\ Len(word) > 3)
         /\ Ends(word, <<"s">>) /\ Len(word) > 3
         /\ word[Len(word) - 1] # "s" -> Cut(word, 1)
      [] OTHER -> word

RuleD(word) ==
    IF Ends(word, <<"c","e">>) /\ Len(word) > 4 THEN Cut(word, 1) ELSE word

StemByRules(word) ==
    IF Len(word) <= 3 THEN word ELSE RuleD(RuleC(RuleB(RuleA(word))))

\* The stems the examples give.
StemExamples ==
    /\ call.word = <<"r","u","n","n","i","n","g">> => ret.stem = <<"r","u","n">>
    /\ call.word = <<"s","e","r","v","i","c","e","s">> => ret.stem = <<"s","e","r","v","i","c">>
    /\ call.word = <<"s","e","r","v","i","c","e">> => ret.stem = <<"s","e","r","v","i","c">>
    /\ call.word = <<"f","a","i","l","i","n","g">> => ret.stem = <<"f","a","i","l">>
    /\ call.word = <<"i","s">> => ret.stem = <<"i","s">>

\* C13: _simple_stem(w) is w when w has at most 3 letters and otherwise what
\* the rules leave, each applied to the result of the one before: (a) 'ing' is
\* stripped from a word longer than 5 and a doubled non-vowel ending undoubled;
\* (b) 'ed' is stripped from a word longer than 4, undoubled likewise; (c) 'ies'
\* becomes 'y' in a word longer than 4, else 'es' is stripped from a word longer
\* than 3, else a final 's' not preceded by 's' is; (d) the 'e' of a final 'ce'
\* is stripped from a word longer than 4.  So "running" gives "run", "services"
\* and "service" give "servic", "failing" gives "fail" and "is" gives "is".
StemRules ==
    Returned("_simple_stem")
    => /\ ret.stem = StemByRules(call.word)
       /\ Len(call.word) <= 3 => ret.stem = call.word
       /\ StemExamples

\* A word lost 'ing' and then 'ed', the second suffix counted on what the first
\* rule left.
StemRulesWitness ==
    /\ Returned("_simple_stem")
    /\ Ends(call.word, <<"e","d","i","n","g">>)
    /\ Len(call.word) = MaxWordLen
    /\ Len(ret.stem) = Len(call.word) - 3
    /\ ret.stem = Cut(call.word, 3)

\* C11: no step of an invocation changes the mapper (its valid-intent set,
\* keyword and example indexes, catalog, rules and weights stay as constructed),
\* and every invocation of validate_classification_result returns, whatever
\* the other callers' invocations did in between, the result the same call
\* gives when it runs alone on the mapper.
InterleavingIndependent ==
    /\ mapper = Constructed
    /\ \A t \in Threads :
          frames[t].pc = "returned"
          => frames[t].result =
                 validate_classification_result(Constructed, frames[t].call.query,
                     frames[t].call.primary_intents, frames[t].call.enriched_intents)

\* An invocation returned that had started after another caller's invocation,
\* with other arguments, which is still in its loop over the enrichments: the
\* two ran interleaved.
InterleavingIndependentWitness ==
    \E t \in Threads, u \in Threads :
        /\ frames[t].pc = "returned"
        /\ frames[u].pc = "enrichment"
        /\ frames[u].i = 1
        /\ frames[u].call # frames[t].call
        /\ frames[u].st.primary_intents # <<>>
        /\ frames[t].result.primary_intents # <<>>
        /\ Len(frames[t].result.recommendations) > 1

\* The collaborator failed, or the list it proposed is empty.
CollaboratorFailed(outcome) ==
    \/ outcome.kind # "Message"
    \/ ~ParsedIntents(outcome.text).ok
    \/ ParsedIntents(outcome.text).value = <<>>

\* C15: classify sends exactly one request to the intent-proposal collaborator
\* per call, and when the collaborator fails or proposes no intent, classify
\* returns the "Failed to classify intent" result with empty primary_intents,
\* enriched_intents and data_sources and without a confidence validation.
\* Violated: when the service answers with a body that is not JSON, the handler
\* of JSONDecodeError reads an unbound assistant_message and classify raises
\* UnboundLocalError instead of returning.
FailureIsErrorResult ==
    Returned("classify") =>
        /\ Len(bedrock_calls) = 1
        /\ CollaboratorFailed(bedrock_calls[1].outcome) =>
              /\ ret.raised = ""
              /\ ret.result = FailedToClassify(classifier.last_token_consumption)
              /\ "confidence_validation" \notin DOMAIN ret.result


\* The text in lower case with every character outside [a-z0-9], whitespace and
\* '-' replaced by a space.
CleanedText(text) ==
    [i \in DOMAIN text |->
        LET c == LowerChar(text[i])
        IN  IF c \in Range(LowerLetters) \cup Digits \cup {" ", "-"} THEN c ELSE " "]

\* The whitespace-separated tokens of the cleaned text: its maximal runs of
\* characters other than the space.
TokensOf(text) ==
    LET c == CleanedText(text)
        IsToken(i, j) ==
            /\ i <= j
            /\ \A k \in i..j : c[k] # " "
            /\ i = 1 \/ c[i - 1] = " "
            /\ j = Len(c) \/ c[j + 1] = " "
    IN  { SubSeq(c, p[1], p[2]) : p \in { q \in (DOMAIN c) \X (DOMAIN c) : IsToken(q[1], q[2]) } }

Interrogatives ==
    { <<"w","h","a","t">>, <<"w","h","i","c","h">>, <<"w","h","o">>, <<"w","h","e","n">>,
      <<"w","h","e","r","e">>, <<"w","h","y">>, <<"h","o","w">> }

\* C21: the keywords of a text, as a set, are the stems of its tokens longer
\* than 2 characters that are no stop words: a short token or a stop word gives
\* no keyword, an interrogative and a hyphenated token give their stem.
KeywordSet ==
    Returned("_extract_keywords")
    => LET tokens == TokensOf(call.text)
           kept == { t \in tokens : Len(t) > 2 /\ t \notin stop_words }
           keywords == Range(ret.keywords)
       IN  /\ keywords = { StemByRules(t) : t \in kept }
           /\ \A t \in tokens : Len(t) <= 2 \/ t \in stop_words
                 => (StemByRules(t) \in keywords => \E u \in kept : StemByRules(u) = StemByRules(t))
           /\ \A t \in tokens \cap Interrogatives : StemByRules(t) \in keywords
           /\ Interrogatives \cap stop_words = {}
           /\ <<"p","a","y","m","e","n","t","-","a","p","i">> \in tokens
                 => <<"p","a","y","m","e","n","t","-","a","p","i">> \in keywords
           /\ keywords \cap { <<"i","s">>, <<"t","h","e">>, <<"d","b">>, <<"s">> } = {}

\* Two tokens gave the same stem, a hyphenated token was kept whole and a stop
\* word was dropped.
KeywordSetWitness ==
    /\ Returned("_extract_keywords")
    /\ call.text \in KeywordTexts
    /\ Len(ret.keywords) > Cardinality(Range(ret.keywords))
    /\ <<"p","a","y","m","e","n","t","-","a","p","i">> \in Range(ret.keywords)
    /\ Cardinality(TokensOf(call.text)) = MaxTokens


\* The keyword set of a text: the stems of its tokens longer than 2 characters
\* that are no stop words.
KeywordSetOf(text) ==
    { StemByRules(t) : t \in { u \in TokensOf(text) : Len(u) > 2 /\ u \notin stop_words } }

\* The <<name, data>> records of the intents of the catalog the mapper was
\* constructed from.
CatalogRecords ==
    LET categories == init_args.intent_categories
        withIntents == { c \in DOMAIN categories : "intents" \in DOMAIN categories[c][2] }
    IN  UNION { Range(categories[c][2]["intents"]) : c \in withIntents }

\* C22: when the intent names of the catalog are unique, the mapper holds for
\* every intent the keywords of its description united with the keywords of
\* each of its examples, and its example list as written, and the keys of both
\* indexes are the valid-intent set.
IndexesMatchCatalog ==
    Cardinality({ r[1] : r \in CatalogRecords }) = Cardinality(CatalogRecords)
    => /\ mapper.all_valid_intents = { r[1] : r \in CatalogRecords }
       /\ DOMAIN mapper.intent_keywords = mapper.all_valid_intents
       /\ DOMAIN mapper.intent_examples = mapper.all_valid_intents
       /\ \A r \in CatalogRecords :
             LET description == IF "description" \in DOMAIN r[2] THEN r[2].description ELSE <<>>
                 examples == IF "examples" \in DOMAIN r[2] THEN r[2].examples ELSE <<>>
             IN  /\ mapper.intent_keywords[r[1]]
                      = KeywordSetOf(description)
                        \cup UNION { KeywordSetOf(examples[i]) : i \in DOMAIN examples }
                 /\ mapper.intent_examples[r[1]] = examples

\* A mapper that has served a call holds, for an intent with a description and
\* two examples, keywords that come from the examples only, and both examples.
IndexesMatchCatalogWitness ==
    /\ served
    /\ \E r \in CatalogRecords :
          /\ {"description", "examples"} \subseteq DOMAIN r[2]
          /\ Len(mapper.intent_examples[r[1]]) = 2
          /\ mapper.intent_keywords[r[1]] \ KeywordSetOf(r[2].description) # {}
          /\ KeywordSetOf(r[2].description) # {}


\* The names the rules of the names in S list.
HopFrom(self, S) ==
    UNION { DirectOf(self, d) : d \in S }

\* C23: calculate_enrichment_confidence follows the rules two hops and no
\* further: a valid candidate that is neither a direct enrichment of the primary
\* intent nor listed by one of its direct enrichments scores 0.0 with depth 0,
\* also when a longer path or a cycle of the rules leads to it; and a depth-2
\* result names the first direct enrichment, in the order of the primary's rule
\* list, whose own list holds the candidate.
DepthTwoBound ==
    Returned("calculate_enrichment_confidence")
    => LET p == call.primary_intent
           e == call.enrichment_intent
           rules == dict_get(mapper.enrichment_rules, p, <<>>)
       IN  /\ ret.details.enrichment_depth \in {0, 1, 2}
           /\ ( e \in mapper.all_valid_intents
                /\ e \notin DirectOf(mapper, p) /\ e \notin TwoHopOf(mapper, p) )
              => /\ ret.score = RZero
                 /\ ret.details.enrichment_depth = 0
                 /\ ret.details.is_valid_enrichment = FALSE
           /\ ret.details.enrichment_depth = 2
              => \E i \in DOMAIN rules :
                    /\ e \in DirectOf(mapper, rules[i])
                    /\ \A j \in 1..(i - 1) : e \notin DirectOf(mapper, rules[j])
                    /\ ret.details.reasoning
                         = << <<"Secondary enrichment", p, rules[i], e>> >>

\* The call returned 0.0 with depth 0 for a valid candidate that the rules
\* reach from the primary intent in three hops and not in fewer: the primary
\* intent itself, on a cycle of the rules.
DepthTwoBoundWitness ==
    /\ Returned("calculate_enrichment_confidence")
    /\ call.enrichment_intent \in mapper.all_valid_intents
    /\ call.enrichment_intent \notin DirectOf(mapper, call.primary_intent)
    /\ call.enrichment_intent \notin TwoHopOf(mapper, call.primary_intent)
    /\ call.enrichment_intent \in HopFrom(mapper, TwoHopOf(mapper, call.primary_intent))
    /\ call.enrichment_intent = call.primary_intent
    /\ ret.score = RZero
    /\ ret.details.enrichment_depth = 0


\* The bucket label of the reasoning trail for each level.
BucketLabel ==
    [ HIGH |-> <<"HIGH confidence - strong match">>,
      MEDIUM |-> <<"MEDIUM confidence - acceptable match">>,
      LOW |-> <<"LOW confidence - weak match">>,
      VERY_LOW |-> <<"VERY LOW confidence - questionable match">> ]

\* C24: for a valid intent the reasoning trail of
\* calculate_primary_intent_confidence begins with the validity entry and ends
\* with its only bucket label: HIGH for a score >= 0.7, MEDIUM for >= 0.4, LOW
\* for >= 0.2, VERY LOW below, the bucket get_confidence_level gives the score;
\* the score is the weighted sum whatever the label, and details.final_score is
\* the score.  For an invalid intent the trail is one entry, no bucket label.
BucketLabelLast ==
    Returned("calculate_primary_intent_confidence")
    => LET trail == ret.details.reasoning
           labels == { BucketLabel[l] : l \in DOMAIN BucketLabel }
           bucket == IF RGe(ret.score, Q(7, 10)) THEN "HIGH"
                     ELSE IF RGe(ret.score, Q(4, 10)) THEN "MEDIUM"
                     ELSE IF RGe(ret.score, Q(2, 10)) THEN "LOW"
                     ELSE "VERY_LOW"
       IN  IF call.intent \in mapper.all_valid_intents
           THEN /\ Len(trail) >= 2
                /\ trail[1] = <<"Intent is valid", call.intent>>
                /\ trail[Len(trail)] = BucketLabel[bucket]
                /\ { i \in DOMAIN trail : trail[i] \in labels } = { Len(trail) }
                /\ bucket = get_confidence_level(ret.score)
                /\ ret.details.final_score = ret.score
                /\ ret.score = RAdd(RMul(mapper.keyword_weight, ret.details.keyword_match_score),
                                    RMul(mapper.similarity_weight,
                                         ret.details.example_similarity_score))
           ELSE /\ Len(trail) = 1
                /\ trail[1] \notin labels
                /\ ret.details.final_score = ret.score

\* A valid intent scored in [0.2, 0.4): its trail holds entries between the
\* validity entry and the label LOW.
BucketLabelLastWitness ==
    /\ Returned("calculate_primary_intent_confidence")
    /\ call.intent \in mapper.all_valid_intents
    /\ RGe(ret.score, Q(2, 10))
    /\ RLt(ret.score, Q(4, 10))
    /\ Len(ret.details.reasoning) > 2
    /\ ret.details.reasoning[Len(ret.details.reasoning)] = BucketLabel["LOW"]


\* C27: every result of calculate_enrichment_confidence has a depth of 0, 1
\* or 2; its score is 1.0 exactly when the depth is 1, 0.8 exactly when the
\* depth is 2 and 0.0 exactly when the depth is 0; is_valid_enrichment holds
\* exactly when the score is positive and implies is_valid_intent; the
\* reasoning trail has exactly one entry; and the result is the same whether or
\* not the primary intent is an intent of the catalog.
EnrichmentResultShape ==
    Returned("calculate_enrichment_confidence")
    => LET p == call.primary_intent
           e == call.enrichment_intent
           d == ret.details
           catalogs == IF p = e THEN {mapper.all_valid_intents}
                       ELSE {mapper.all_valid_intents \ {p},
                             mapper.all_valid_intents \cup {p}}
       IN  /\ d.enrichment_depth \in {0, 1, 2}
           /\ ret.score = Q(1, 1) <=> d.enrichment_depth = 1
           /\ ret.score = Q(8, 10) <=> d.enrichment_depth = 2
           /\ ret.score = Q(0, 1) <=> d.enrichment_depth = 0
           /\ d.is_valid_enrichment <=> RGt(ret.score, Q(0, 1))
           /\ d.is_valid_enrichment => d.is_valid_intent
           /\ Len(d.reasoning) = 1
           /\ d.final_score = ret.score
           /\ \A with \in catalogs :
                 calculate_enrichment_confidence(
                     [mapper EXCEPT !.all_valid_intents = with], p, e) = ret

\* The call returned a positive score for a primary intent that is no intent
\* of the catalog.
EnrichmentResultShapeWitness ==
    /\ Returned("calculate_enrichment_confidence")
    /\ call.primary_intent \notin mapper.all_valid_intents
    /\ call.enrichment_intent # call.primary_intent
    /\ ret.details.enrichment_depth = 2
    /\ ret.details.is_valid_enrichment
    /\ ret.score = Q(8, 10)


\* list with x inserted at position i.
InsertAt(list, i, x) ==
    SubSeq(list, 1, i - 1) \o <<x>> \o SubSeq(list, i, Len(list))

\* The names that are no element of the call's lists and score 0.0 as an
\* enrichment of every primary intent of the call: unlinked, or absent from
\* the catalog.
NewUnlinkedNames ==
    { c \in IntentNames :
        /\ c \notin Range(call.primary_intents) \cup Range(call.enriched_intents)
        /\ \A p \in Range(call.primary_intents) :
               calculate_enrichment_confidence(mapper, p, c).score = RZero }

\* C26: in every result of validate_classification_result every collected
\* source score is 0.8 or 1.0, enrichment_confidence lies in [0.8, 1.0] and
\* overall_confidence is at least 0.8 x primary_confidence + 0.16; and calling
\* again with one more candidate in enriched_intents, at any position, that is
\* unlinked to every primary intent or absent from the catalog, gives the same
\* three confidences, the same enrichments entries plus one entry without
\* sources for the candidate, and the same recommendations plus one for it.
UnlinkedCandidateNeutral ==
    Returned("validate_classification_result")
    => /\ \A i \in DOMAIN ret.enrichments :
              \A j \in DOMAIN ret.enrichments[i][2].sources :
                  ret.enrichments[i][2].sources[j].score \in {Q(8, 10), Q(1, 1)}
       /\ RGe(ret.enrichment_confidence, Q(8, 10))
       /\ RLe(ret.enrichment_confidence, Q(1, 1))
       /\ RGe(RAdd(ret.overall_confidence, RMul(Q(-8, 10), ret.primary_confidence)),
              Q(16, 100))
       /\ \A c \in NewUnlinkedNames, i \in 1..(Len(call.enriched_intents) + 1) :
              LET more == validate_classification_result(mapper, call.query,
                              call.primary_intents,
                              InsertAt(call.enriched_intents, i, c))
                  other(item) == item[1] # c
                  unlinked == <<"Enrichment has no valid link to primary intents", c>>
                  notUnlinked(r) == r # unlinked
              IN  /\ more.primary_confidence = ret.primary_confidence
                  /\ more.enrichment_confidence = ret.enrichment_confidence
                  /\ more.overall_confidence = ret.overall_confidence
                  /\ Len(more.enrichments) = Len(ret.enrichments) + 1
                  /\ SelectSeq(more.enrichments, other) = ret.enrichments
                  /\ \E k \in DOMAIN more.enrichments :
                         more.enrichments[k]
                             = <<c, [sources |-> <<>>, max_confidence |-> RZero]>>
                  /\ Len(more.recommendations) = Len(ret.recommendations) + 1
                  /\ SelectSeq(more.recommendations, notUnlinked) = ret.recommendations
                  /\ more.primary_intents = ret.primary_intents

\* The call collected a source score of 0.8, so that enrichment_confidence is
\* below 1.0, and a further name is unlinked to every primary intent of the call.
UnlinkedCandidateNeutralWitness ==
    /\ Returned("validate_classification_result")
    /\ call.primary_intents # <<>>
    /\ RLt(ret.enrichment_confidence, Q(1, 1))
    /\ NewUnlinkedNames # {}


\* The call in progress is a classify call that returned a result without
\* the 'error' key.
Classified ==
    /\ Returned("classify")
    /\ ret.raised = ""
    /\ "error" \notin DOMAIN ret.result

\* The position of a name in the order of str.
NameOrder(name) ==
    CHOOSE i \in DOMAIN SortedNames : SortedNames[i] = name

StrictlyAscending(list) ==
    \A i \in 1..(Len(list) - 1) : NameOrder(list[i]) < NameOrder(list[i + 1])

\* C28: in every successful classify result enriched_intents is sorted, has no
\* duplicate and holds the primary intents and the names the rules of the
\* primary intents list (depth 1 only); data_sources is sorted, has no
\* duplicate and holds the data sources of those intents; and with confidence
\* validation every enrichment candidate that is a catalog intent has
\* max_confidence 1.0, the candidates flagged as unlinked being those absent
\* from the catalog.
ClassifyEnrichment ==
    Classified
    => LET r == ret.result
           primaries == Range(r.primary_intents)
           direct == UNION { DirectOf(mapper, p) : p \in primaries }
           sources(n) == IF n \in DOMAIN classifier.intent_to_data_sources
                         THEN Range(classifier.intent_to_data_sources[n]) ELSE {}
       IN  /\ StrictlyAscending(r.enriched_intents)
           /\ Range(r.enriched_intents) = primaries \cup direct
           /\ StrictlyAscending(r.data_sources)
           /\ Range(r.data_sources) = UNION { sources(n) : n \in primaries \cup direct }
           /\ call.include_confidence
              => LET v == r.confidence_validation
                 IN  /\ DictKeys(v.enrichments) = direct \ primaries
                     /\ \A i \in DOMAIN v.enrichments :
                          LET c == v.enrichments[i][1]
                              unlinked == <<"Enrichment has no valid link to primary intents", c>>
                          IN  /\ c \in mapper.all_valid_intents
                                 <=> v.enrichments[i][2].max_confidence = Q(1, 1)
                              /\ c \notin mapper.all_valid_intents
                                 <=> unlinked \in Range(v.recommendations)
                              /\ c \notin mapper.all_valid_intents
                                 <=> v.enrichments[i][2].sources = <<>>

\* A classify call returned two primary intents in an order that is not the
\* sorted one, with confidence validation, one candidate being flagged as
\* unlinked, and the rules lead further than the enriched intents.
ClassifyEnrichmentWitness ==
    /\ Classified
    /\ call.include_confidence
    /\ Len(ret.result.primary_intents) = 2
    /\ ~StrictlyAscending(ret.result.primary_intents)
    /\ StrictlyAscending(ret.result.enriched_intents)
    /\ Len(ret.result.enriched_intents) = 3
    /\ \E i \in DOMAIN ret.result.confidence_validation.enrichments :
           ret.result.confidence_validation.enrichments[i][2].max_confidence = Q(0, 1)

\* A classify call returned enriched intents that leave out a name two rules
\* away from a primary intent, a candidate with max_confidence 1.0, and the
\* data sources of two intents that share one.
ClassifyEnrichmentDepthOne ==
    /\ Classified
    /\ call.include_confidence
    /\ Len(ret.result.data_sources) = 3
    /\ \E p \in Range(ret.result.primary_intents) :
           TwoHopOf(mapper, p) \ Range(ret.result.enriched_intents) # {}
    /\ \E i \in DOMAIN ret.result.confidence_validation.enrichments :
           ret.result.confidence_validation.enrichments[i][2].max_confidence = Q(1, 1)


\* The consumptions calculate_token_consumption can report for the response
\* of the call in progress, if the service gave one.
ConsumptionsOfThisCall ==
    LET outcome == bedrock_calls[Len(bedrock_calls)].outcome
    IN  IF outcome.kind = "Message"
        THEN { calculate_token_consumption(classifier.system_prompt, call.user_query,
                                           outcome.text, classifier.model_id, halfway) :
                 halfway \in [{"input", "output", "total"} -> BOOLEAN] }
        ELSE { NoConsumption }

\* C29: the token_consumption of every classify result is the consumption
\* computed from the response of that same call, and None when the service
\* failed before it gave a response, whatever an earlier call left in
\* last_token_consumption.
ConsumptionOfSameCall ==
    ( Returned("classify") /\ ret.raised = "" )
    => ret.result.token_consumption \in ConsumptionsOfThisCall

\* The same for the first call of a classifier, before which
\* last_token_consumption is None.
ConsumptionOfFirstCall ==
    ( Returned("classify") /\ ret.raised = "" /\ ~served )
    => ret.result.token_consumption \in ConsumptionsOfThisCall


\* The keys score sets in its result.
ScoreKeys ==
    {"confidence", "confidence_level", "confidence_details"}

\* C25: the result of score has a 'confidence' in [0.0, 1.0]; its
\* 'confidence_level' is the first of high, medium, low whose threshold, as
\* the scorer holds it at the call, the confidence reaches, and very_low when
\* it reaches none; every key of the input that score does not set is in the
\* result with the input's value; and the input dict is as it was.
ScoreResult ==
    Returned("score")
    => LET given == call.classification_result
           r == ret.result
           level == IF RGe(r.confidence, scorer.high_threshold) THEN "high"
                    ELSE IF RGe(r.confidence, scorer.medium_threshold) THEN "medium"
                    ELSE IF RGe(r.confidence, scorer.low_threshold) THEN "low"
                    ELSE "very_low"
       IN  /\ RGe(r.confidence, Q(0, 1))
           /\ RLe(r.confidence, Q(1, 1))
           /\ r.confidence_level = level
           /\ r.confidence_details.score = r.confidence
           /\ r.confidence_details.level = level
           /\ r.confidence_details.thresholds
                = [ high |-> scorer.high_threshold, medium |-> scorer.medium_threshold,
                    low |-> scorer.low_threshold ]
           /\ DOMAIN r = DOMAIN given \cup ScoreKeys
           /\ \A k \in DOMAIN given \ ScoreKeys : r[k] = given[k]
           /\ ret.classification_result = given

\* score returned for an input with a further key, after the thresholds were
\* adjusted to values under which the level differs from the level under the
\* default thresholds.
ScoreResultWitness ==
    /\ Returned("score")
    /\ "data_sources" \in DOMAIN call.classification_result
    /\ ret.result.data_sources = <<"logs">>
    /\ ret.result.confidence = Q(9, 10)
    /\ scorer.high_threshold = Q(9, 10)
    /\ scorer.low_threshold = Q(7, 10)
    /\ ret.result.confidence_level = "high"

\* score returned for an input that has a 'confidence' already: the result
\* holds the new one, the input the old one.
ScoreOverwritesWitness ==
    /\ Returned("score")
    /\ "confidence" \in DOMAIN call.classification_result
    /\ ret.result.confidence = Q(9, 20)
    /\ ret.result.confidence_level = "very_low"
    /\ ret.classification_result.confidence = Q(1, 2)


\* The share of very_low in the distribution a get_confidence_stats call
\* returned for a history that is not empty.
VeryLowShare ==
    ret.distribution["very_low"]

\* C30: whatever adjust_thresholds calls came before (each changing the
\* thresholds passed and no other), the scorer is consistent with itself:
\* should_request_clarification(s) is true exactly when the level of s is
\* VERY_LOW; get_fallback_intent(s, c) is an intent only when
\* should_request_clarification(s) is true and c is a category of the table;
\* and get_confidence_stats gives, for a history that is not empty, a
\* clarification_rate equal to the very_low share of the distribution, the
\* shares adding up to 100.
ScorerSelfConsistent ==
    /\ Returned("adjust_thresholds")
       => /\ scorer.high_threshold \in ThresholdValues
          /\ \A k \in DOMAIN call.kwargs :
                 /\ k = "high" => scorer.high_threshold = call.kwargs[k]
                 /\ k = "medium" => scorer.medium_threshold = call.kwargs[k]
                 /\ k = "low" => scorer.low_threshold = call.kwargs[k]
    /\ Returned("should_request_clarification")
       => ( ret.clarification
            <=> _get_confidence_level(scorer, call.confidence_score) = "VERY_LOW" )
    /\ Returned("get_fallback_intent")
       => ( ret.intent # None
            => /\ should_request_clarification(scorer, call.confidence_score)
               /\ _get_confidence_level(scorer, call.confidence_score) = "VERY_LOW"
               /\ call.category \in {"STATE", "TREND", "PATTERN", "CAUSE", "IMPACT",
                                     "ACTION", "PREDICT", "OPTIMIZE", "EVIDENCE"} )
    /\ ( Returned("get_confidence_stats") /\ call.classification_history # <<>> )
       => /\ ret.clarification_rate = VeryLowShare
          /\ RSum([i \in 1..4 |->
                     ret.distribution[<<"high", "medium", "low", "very_low">>[i]]])
               = Q(100, 1)

\* The same with the thresholds in descending order, as the constructor's
\* defaults are: low <= medium <= high.
ScorerSelfConsistentWhenOrdered ==
    ( /\ RLe(scorer.low_threshold, scorer.medium_threshold)
      /\ RLe(scorer.medium_threshold, scorer.high_threshold) )
    => ScorerSelfConsistent

\* adjust_thresholds changes the thresholds passed and no other.
AdjustChangesOnlyPassed ==
    [][ \A kwargs \in [{"low"} -> ThresholdValues] :
            AdjustThresholds(kwargs)
            => /\ scorer'.low_threshold = kwargs.low
               /\ scorer'.high_threshold = scorer.high_threshold
               /\ scorer'.medium_threshold = scorer.medium_threshold ]_vars

=============================================================================
